---- MODULE Spec2Model ----
(***************************************************************************)
(* Agent Graph Execution Engine of beezle-bug: the runtime that deploys a  *)
(* design graph, routes message lists through it, and the scheduler that   *)
(* drives scheduled events.                                                *)
(*                                                                         *)
(* Sources: backend/beezle_bug/agent_graph/runtime.py (deploy, undeploy,   *)
(* routing, entry dispatch, scheduled ticks), execution_graph.py           *)
(* (MessageBufferState), execution_graph_builder.py (buffer construction,  *)
(* routing classification), scheduler.py (task table and tick loop).       *)
(*                                                                         *)
(* runtime.py routes over the design graph and knows agents, text outputs  *)
(* and wait-and-combine nodes.  The branch of the router that serves       *)
(* message buffers (buffer_in / buffer_trigger targets of the routing      *)
(* table) is not among the sources; it is taken from section 4.6 of the    *)
(* design document and kept in definitions of its own (BufferIn,           *)
(* BufferTrigger, BuildBuffers, DropBuffers).                              *)
(*                                                                         *)
(* Concurrency: a walk (one entry call or one scheduled tick) runs without *)
(* interleaving from one awaited agent turn to the next; deploy, undeploy, *)
(* other entry calls and the scheduler loop interleave at these points.    *)
(* The scheduler loop calls the callback of a due task and counts the run  *)
(* when the call has returned (scheduler.py:118-128); the callback that    *)
(* the runtime registers is the tick body scheduled_tick_async             *)
(* (runtime.py:369-390).  The two are composed by this interface: the loop *)
(* runs the tick body and goes on when the body has finished.              *)
(*                                                                         *)
(* Storage: storage/sqlite_backend.py is followed statement by statement   *)
(* on its one shared connection (SpecStore); every awaited statement is a  *)
(* point where another caller runs, and a commit stores what is pending on *)
(* the connection.  The builder (SpecBuild) is                             *)
(* ExecutionGraphBuilder.build on a design that the editor changes.        *)
(* SpecJoin and SpecWalk are deployments of designs with a                 *)
(* wait-and-combine node, with a diamond and with a cycle.                 *)
(***************************************************************************)
EXTENDS Integers, Sequences, FiniteSets, TLC

\* ---------------------------------------------------------------- bounds
MaxCalls == 3
MaxClock == 1

MaxEntityId == 3

\* the executions of one agent to which a walk is followed
MaxHops == 3

\* ------------------------------------------------------ program constants
TickInterval == 1

\* ---------------------------------------------------------------- state
VARIABLES
    clock,                    \* datetime.now()
    calls,                    \* deploy, undeploy and send calls made so far
    deploy_count,             \* deploy calls made so far
    is_deployed,
    current_agent_graph,      \* index into Designs, NoGraph for None
    agents,                   \* node id -> deploy call that created the agent
    knowledge_graphs,         \* node id -> deploy call that created the handle
    wait_and_combine_states,
    message_buffers,          \* node id -> pending messages
    tasks,                    \* Scheduler.tasks: task keys in insertion order
    taskobj,                  \* the ScheduledTask objects
    sched,                    \* position of Scheduler._run_loop
    procs,                    \* the walk of each caller
    walk_log,                 \* what each caller's current walk visited
    sent,                     \* user messages sent so far
    exec_count,               \* turns started, per agent
    last_input,               \* the message list of each agent's latest turn
    cb_count,                 \* scheduler callbacks invoked
    design,                   \* the AgentGraph object of each project
    hist,                     \* task id -> creation and callback events
    tstack,                   \* caller -> the Agent.execute calls it is in
    memory_streams,           \* memory stream node id -> its observations
    tlog,                     \* what the agent turns did, in order
    llm_calls,                \* chat_completion calls made so far
    kg_entities,              \* the rows of table kg_entities, by rowid
    kg_relationships,         \* the rows of table kg_relationships, by rowid
    kg_seq,                   \* the AUTOINCREMENT counters of the two tables
    kg_graph,                 \* knowledge graph node id -> its nx.DiGraph
    kg_out,                   \* the latest knowledge graph call and its result
    disk,                     \* the tables of the database file, as committed
    conn,                     \* the tables as the shared connection sees them
    co,                       \* storage caller -> the call it is suspended in
    rets,                     \* what the storage calls returned so far
    wall,                     \* datetime.now(), in parts of a second
    execution_graph           \* the ExecutionGraph of the project, as built last

vars == << clock, calls, deploy_count, is_deployed, current_agent_graph, agents,
           knowledge_graphs, wait_and_combine_states, message_buffers,
           tasks, taskobj, sched, procs, walk_log, sent, exec_count,
           last_input, cb_count, design, hist, tstack, memory_streams, tlog,
           llm_calls, kg_entities, kg_relationships, kg_seq, kg_graph,
           kg_out, disk, conn, co, rets, wall, execution_graph >>

\* the state of the agent turns
\* the state of the knowledge graphs: storage and the deployed objects
kgv == << kg_entities, kg_relationships, kg_seq, kg_graph, kg_out >>

\* the state of the storage backend and its callers
stv == << disk, conn, co, rets, wall >>

\* what the agent turns leave alone
beside == << kgv, stv, execution_graph >>

inner == << tstack, memory_streams, tlog, llm_calls, beside >>

\* the state that the operations of the runtime and the scheduler leave alone
aux == << design, hist, inner >>

\* ------------------------------------------------------------ data model
None == "none"

NoTime == -1

Node(i, t, n) == [id |-> i, type |-> t, name |-> n]

SchedNode(i, n, tt, ra, iv, mc) ==
    [id |-> i, type |-> "scheduled_event", name |-> n, trigger_type |-> tt,
     run_at |-> ra, interval_seconds |-> iv, message_content |-> mc]

Edge(s, sp, t, tp, et) ==
    [source_node |-> s, source_port |-> sp, target_node |-> t,
     target_port |-> tp, edge_type |-> et]

MsgEdge(s, t, tp) == Edge(s, "message_out", t, tp, "message")

Message(s, c) == [sender |-> s, content |-> c]

\* Design graphs offered to deploy.
\* GraphS2: TextInput -> Buffer (message_in); Scheduled -> Buffer (trigger);
\*          Buffer -> Agent -> TextOutput.
GraphS2 ==
    [nodes |-> << Node("T", "text_input", "Text Input"),
                  SchedNode("S", "S", "interval", NoTime, 1, "go"),
                  Node("B", "message_buffer", "B"),
                  Node("A1", "agent", "A1"),
                  Node("O", "text_output", "Text Output") >>,
     edges |-> << MsgEdge("T", "B", "message_in"),
                  MsgEdge("S", "B", "trigger"),
                  MsgEdge("B", "A1", "message_in"),
                  MsgEdge("A1", "O", "message_in") >>]

\* GraphFan: a knowledge graph bound to A1; the text input fans out to A1 and
\* to the buffer; A1 forwards to A2 and to the text output; the scheduled
\* event triggers the buffer, which fans out to A1 and A2.
GraphFan ==
    [nodes |-> << Node("K", "knowledge_graph", "Knowledge Graph"),
                  Node("T", "text_input", "Text Input"),
                  Node("A2", "agent", "A2"),
                  Node("A1", "agent", "A1"),
                  Node("B", "message_buffer", "B"),
                  SchedNode("S", "S", "interval", NoTime, 1, "go"),
                  Node("O", "text_output", "Text Output") >>,
     edges |-> << Edge("A1", "knowledge", "K", "connection", "resource"),
                  MsgEdge("T", "A1", "message_in"),
                  MsgEdge("T", "B", "message_in"),
                  MsgEdge("A1", "A2", "message_in"),
                  MsgEdge("A1", "O", "message_in"),
                  MsgEdge("S", "B", "trigger"),
                  MsgEdge("B", "A1", "message_in"),
                  MsgEdge("B", "A2", "message_in") >>]

\* GraphEntry: two text inputs and a voice input.  T feeds A1 and A2, T2
\* feeds the buffer, V feeds A2; A1 forwards to A3 and to two text outputs,
\* A3 to one text output; A2 has no successor.
GraphEntry ==
    [nodes |-> << Node("T", "text_input", "Text Input"),
                  Node("T2", "text_input", "Text Input 2"),
                  Node("V", "voice_input", "Voice Input"),
                  Node("A1", "agent", "A1"),
                  Node("A2", "agent", "A2"),
                  Node("A3", "agent", "A3"),
                  Node("B", "message_buffer", "B"),
                  Node("O", "text_output", "Text Output"),
                  Node("O2", "text_output", "Text Output 2") >>,
     edges |-> << MsgEdge("T", "A1", "message_in"),
                  MsgEdge("T", "A2", "message_in"),
                  MsgEdge("T2", "B", "message_in"),
                  MsgEdge("V", "A2", "message_in"),
                  MsgEdge("A1", "A3", "message_in"),
                  MsgEdge("A1", "O", "message_in"),
                  MsgEdge("A1", "O2", "message_in"),
                  MsgEdge("A3", "O", "message_in") >>]

\* GraphBare: no input node; A1 forwards to A2 and to the text output.
GraphBare ==
    [nodes |-> << Node("A1", "agent", "A1"),
                  Node("A2", "agent", "A2"),
                  Node("O", "text_output", "Text Output") >>,
     edges |-> << MsgEdge("A1", "A2", "message_in"),
                  MsgEdge("A1", "O", "message_in") >>]

\* a toolbox node with the tool names of its config
ToolboxNode(i, n, tools) == [id |-> i, type |-> "toolbox", name |-> n,
                            tools |-> tools]

\* GraphAsk: A answers the text input and writes to the text output; A can
\* ask B through a delegate edge; A and B have a toolbox each and a memory
\* stream each; B has a text output of its own.
GraphAsk ==
    [nodes |-> << Node("M", "memory_stream", "Memory Stream"),
                  Node("M2", "memory_stream", "Memory Stream 2"),
                  ToolboxNode("X", "Toolbox", << "run" >>),
                  Node("T", "text_input", "Text Input"),
                  Node("A", "agent", "A"),
                  Node("B", "agent", "B"),
                  Node("O", "text_output", "Text Output") >>,
     edges |-> << Edge("A", "memory", "M", "connection", "resource"),
                  Edge("B", "memory", "M2", "connection", "resource"),
                  Edge("A", "tools", "X", "connection", "resource"),
                  Edge("B", "tools", "X", "connection", "resource"),
                  Edge("A", "ask", "B", "answer", "delegate"),
                  MsgEdge("T", "A", "message_in"),
                  MsgEdge("A", "O", "message_in"),
                  MsgEdge("B", "O", "message_in") >>]

\* GraphShare: as GraphAsk, with one memory stream bound to both agents
GraphShare ==
    [GraphAsk EXCEPT !.edges[2] =
        Edge("B", "memory", "M", "connection", "resource")]

\* GraphKg: agents A and B bound to knowledge graph K, agent C to K2
GraphKg ==
    [nodes |-> << Node("K", "knowledge_graph", "Knowledge Graph"),
                  Node("K2", "knowledge_graph", "Knowledge Graph 2"),
                  Node("T", "text_input", "Text Input"),
                  Node("A", "agent", "A"),
                  Node("B", "agent", "B"),
                  Node("C", "agent", "C") >>,
     edges |-> << Edge("A", "knowledge", "K", "connection", "resource"),
                  Edge("B", "knowledge", "K", "connection", "resource"),
                  Edge("C", "knowledge", "K2", "connection", "resource"),
                  MsgEdge("T", "A", "message_in") >>]

\* GraphJoin: the wait-and-combine node W expects the text input, A1 and
\* the scheduled event; it forwards to the text output and to A2.
GraphJoin ==
    [nodes |-> << Node("T", "text_input", "Text Input"),
                  SchedNode("S", "S", "interval", NoTime, 1, "go"),
                  Node("A1", "agent", "A1"),
                  Node("A2", "agent", "A2"),
                  Node("W", "wait_and_combine", "W"),
                  Node("O", "text_output", "Text Output") >>,
     edges |-> << MsgEdge("T", "W", "message_in"),
                  MsgEdge("T", "A1", "message_in"),
                  MsgEdge("A1", "W", "message_in"),
                  MsgEdge("S", "W", "message_in"),
                  MsgEdge("W", "O", "message_in"),
                  MsgEdge("W", "A2", "message_in") >>]

\* GraphDiamond: no cycle; the text input feeds A1 and A2, both feed A3,
\* which writes to the text output; the voice input feeds A2, the scheduled
\* event A1.
GraphDiamond ==
    [nodes |-> << Node("T", "text_input", "Text Input"),
                  Node("V", "voice_input", "Voice Input"),
                  SchedNode("S", "S", "interval", NoTime, 1, "go"),
                  Node("A1", "agent", "A1"),
                  Node("A2", "agent", "A2"),
                  Node("A3", "agent", "A3"),
                  Node("O", "text_output", "Text Output") >>,
     edges |-> << MsgEdge("T", "A1", "message_in"),
                  MsgEdge("T", "A2", "message_in"),
                  MsgEdge("V", "A2", "message_in"),
                  MsgEdge("S", "A1", "message_in"),
                  MsgEdge("A1", "A3", "message_in"),
                  MsgEdge("A2", "A3", "message_in"),
                  MsgEdge("A3", "O", "message_in") >>]

\* GraphLoop: A1 and A2 feed each other; the text input feeds A1, which
\* also writes to the text output and feeds A3.
GraphLoop ==
    [nodes |-> << Node("T", "text_input", "Text Input"),
                  Node("A1", "agent", "A1"),
                  Node("A2", "agent", "A2"),
                  Node("A3", "agent", "A3"),
                  Node("O", "text_output", "Text Output") >>,
     edges |-> << MsgEdge("T", "A1", "message_in"),
                  MsgEdge("A1", "O", "message_in"),
                  MsgEdge("A1", "A2", "message_in"),
                  MsgEdge("A2", "A1", "message_in"),
                  MsgEdge("A1", "A3", "message_in") >>]

Designs == << GraphS2, GraphFan, GraphEntry, GraphBare, GraphAsk, GraphShare,
              GraphKg, GraphJoin, GraphDiamond, GraphLoop >>

\* the designs of the deployment life-cycle specifications
GraphIds == { g \in DOMAIN Designs : Designs[g] \in {GraphS2, GraphFan} }

NoGraph == 0

UserContent == << "a", "b", "c", "d", "e", "f" >>

Users == {"u1"}

Procs == Users \cup {"sched"}

\* ----------------------------------------------------- helpers
Range(s) == { s[i] : i \in DOMAIN s }

EmptyMap == [x \in {} |-> 0]

MapPut(f, k, v) == [x \in (DOMAIN f) \cup {k} |-> IF x = k THEN v ELSE f[x]]

NoNode == Node(None, None, None)

\* AgentGraph.get_node
GetNode(g, id) ==
    IF g = NoGraph THEN NoNode
    ELSE LET hits == SelectSeq(design[g].nodes, LAMBDA n : n.id = id)
         IN IF hits = << >> THEN NoNode ELSE hits[1]

\* AgentGraph.get_edges_for_node
get_edges_for_node(g, id) ==
    SelectSeq(design[g].edges,
              LAMBDA e : e.source_node = id \/ e.target_node = id)

NodesOfType(g, t) == SelectSeq(design[g].nodes, LAMBDA n : n.type = t)

\* ------------------------------------------------------- message buffers
\* faulty variants of buffer: the new messages put in front of the pending
\* ones, and the pending ones replaced by the new messages
buffer_prepend(pending, messages) == messages \o pending

buffer_overwrite(pending, messages) == messages

\* MessageBufferState.buffer: pending_messages.extend(messages)
buffer(pending, messages) == pending \o messages

\* faulty variant of flush: the copy is returned, the list is not cleared
flush_keep(pending) == [msgs |-> pending, pending_messages |-> pending]

\* MessageBufferState.flush: copy pending_messages, clear, return the copy
flush(pending) == [msgs |-> pending, pending_messages |-> << >>]

\* ExecutionGraphBuilder.build step 4 / _build_message_buffer: one empty
\* MessageBufferState per message_buffer node
BuildBuffers(g) ==
    [b \in { n.id : n \in Range(NodesOfType(g, "message_buffer")) } |-> << >>]

\* undeploy drops the execution graph; buffered messages are lost
DropBuffers == EmptyMap

\* --------------------------------------------------------- walk machine
\* A walk is the call stack of one entry call (send_user_message or a
\* scheduled tick).  It runs from one suspension point (an awaited agent
\* turn) to the next without interleaving.  The head of stack is the
\* innermost loop; a frame is the loop of send_user_message ("send"),
\* _route_messages ("route") or scheduled_tick_async ("tick") with its
\* cursor i into the list it iterates ("direct" is the loop of
\* send_user_message over self.agents when the graph has no input node of
\* the kind): items is that list object, live
\* tells that it still is the edge list of graph g (an edge appended to the
\* graph is then seen by the loop).
Frame(kind, src, msgs, g, i, items) ==
    [kind |-> kind, src |-> src, msgs |-> msgs, g |-> g, i |-> i,
     items |-> items, live |-> (kind \in {"send", "route"})]

\* one visit of a walk: the list msgs emitted by src reached tgt through item
\* e of the list the loop iterates over graph g; before and after are the
\* pending messages of a buffer or wait-and-combine target.  Kind "emit"
\* records that src emitted msgs (an entry call or a non-empty reply).
LogEntry(kind, g, src, tgt, e, msgs, before, after) ==
    [kind |-> kind, g |-> g, src |-> src, tgt |-> tgt, e |-> e,
     msgs |-> msgs, before |-> before, after |-> after]

Emit(g, src, msgs) == LogEntry("emit", g, src, None, 0, msgs, << >>, << >>)

Machine(stack, bufs, wac, log) ==
    [stack |-> stack, bufs |-> bufs, wac |-> wac, log |-> log,
     st |-> "run", agent |-> None, input |-> << >>, responses |-> << >>]

Advance(m) ==
    [m EXCEPT !.stack = << [Head(@) EXCEPT !.i = @ + 1] >> \o Tail(@)]

Pop(m) == [m EXCEPT !.stack = Tail(@)]

Push(m, fr) == [m EXCEPT !.stack = << fr >> \o @]

\* an exception leaving the walk: no frame of the runtime catches it
Raise(m) == [m EXCEPT !.st = "raise", !.stack = << >>]

LogAdd(m, en) == [m EXCEPT !.log = Append(@, en)]

\* the target kinds that the design document adds to the router
BufferTargetTypes == {"message_buffer"}

\* _start_scheduled_event_node: the target types a scheduled event keeps
\* (runtime.py:358), and buffers
ScheduledTargetTypes == {"agent", "wait_and_combine"} \cup BufferTargetTypes

\* _start_scheduled_event_node: target_info, the targets of a scheduled
\* event with the node type found when the list is built
TargetInfo(g, s) ==
    LET es == SelectSeq(get_edges_for_node(g, s),
                 LAMBDA e : /\ e.edge_type = "message"
                            /\ e.source_node = s
                            /\ e.source_port = "message_out"
                            /\ GetNode(g, e.target_node).type
                                   \in ScheduledTargetTypes)
    IN [i \in DOMAIN es |->
           [target_node |-> es[i].target_node,
            target_port |-> es[i].target_port,
            node_type |-> GetNode(g, es[i].target_node).type]]

\* the list a frame iterates
Items(f) == f.items

\* _route_messages entry: returns at once without a graph or messages; g0
\* is the graph in which src produced msgs
PushRoute(m, g0, src, msgs, cg) ==
    IF msgs = << >> THEN m
    ELSE IF cg = NoGraph THEN LogAdd(m, Emit(g0, src, msgs))
    ELSE Push(LogAdd(m, Emit(g0, src, msgs)),
              Frame("route", src, msgs, cg, 1, design[cg].edges))

\* await agent.process_message(messages): the walk suspends in the turn
StartTurn(m, f, a) ==
    [LogAdd(m, LogEntry("exec", f.g, f.src, a, f.i, f.msgs, << >>, << >>))
        EXCEPT !.st = "turn", !.agent = a, !.input = f.msgs]

\* faulty variant of _deliver_to_wait_and_combine: the senders received are
\* not cleared when the node forwards
deliver_to_wait_and_combine_keep(m, f, w, cg) ==
    IF w \notin DOMAIN m.wac THEN m
    ELSE LET s0 == m.wac[w]
             pend == s0.pending_messages \o f.msgs
             recv == s0.senders_received \cup {f.src}
             m1 == LogAdd(m, LogEntry("wac", f.g, f.src, w, f.i, f.msgs,
                                      s0.pending_messages, pend))
         IN IF GetNode(cg, w).type = None
            THEN Raise([m1 EXCEPT !.wac[w].pending_messages = pend,
                                  !.wac[w].senders_received = recv])
            ELSE IF s0.expected_senders \subseteq recv
            THEN PushRoute([m1 EXCEPT !.wac[w].pending_messages = << >>,
                                      !.wac[w].senders_received = recv],
                           f.g, w, pend, cg)
            ELSE [m1 EXCEPT !.wac[w].pending_messages = pend,
                            !.wac[w].senders_received = recv]

\* _deliver_to_wait_and_combine
deliver_to_wait_and_combine(m, f, w, cg) ==
    IF w \notin DOMAIN m.wac THEN m
    ELSE LET s0 == m.wac[w]
             pend == s0.pending_messages \o f.msgs
             recv == s0.senders_received \cup {f.src}
             m1 == LogAdd(m, LogEntry("wac", f.g, f.src, w, f.i, f.msgs,
                                      s0.pending_messages, pend))
         IN IF GetNode(cg, w).type = None
            THEN Raise([m1 EXCEPT !.wac[w].pending_messages = pend,
                                  !.wac[w].senders_received = recv])
            ELSE IF s0.expected_senders \subseteq recv
            THEN PushRoute([m1 EXCEPT !.wac[w].pending_messages = << >>,
                                      !.wac[w].senders_received = {}],
                           f.g, w, pend, cg)
            ELSE [m1 EXCEPT !.wac[w].pending_messages = pend,
                            !.wac[w].senders_received = recv]

\* walk_from, target kind buffer_in: buffers[target].pending += messages
BufferIn(m, f, b) ==
    IF b \notin DOMAIN m.bufs THEN m
    ELSE LET P == m.bufs[b]
             Q == buffer(P, f.msgs)
         IN LogAdd([m EXCEPT !.bufs[b] = Q],
                   LogEntry("buffer_in", f.g, f.src, b, f.i, f.msgs, P, Q))

\* walk_from, target kind buffer_trigger: flush, then walk from the buffer
\* with the flushed list when it is not empty
BufferTrigger(m, f, b, cg) ==
    IF b \notin DOMAIN m.bufs THEN m
    ELSE LET P == m.bufs[b]
             fl == flush(P)
         IN PushRoute(LogAdd([m EXCEPT !.bufs[b] = fl.pending_messages],
                             LogEntry("buffer_trigger", f.g, f.src, b, f.i,
                                      f.msgs, P, fl.pending_messages)),
                      f.g, b, fl.msgs, cg)

\* _build_routing_table: a buffer target is a trigger or a message_in by port
BufferVisit(m, f, e, cg) ==
    IF e.target_port = "trigger" THEN BufferTrigger(m, f, e.target_node, cg)
    ELSE BufferIn(m, f, e.target_node)

\* on_agent_graph_message(source_node_id, sender, content), once per message
ExitDeliver(m, f, o) ==
    [m EXCEPT !.log = @ \o [k \in 1 .. Len(f.msgs) |->
        LogEntry("exit", f.g, f.src, o, f.i, << f.msgs[k] >>, << >>, << >>)]]

\* faulty variant of the loop body of _route_messages: a visited set, an
\* agent that the walk has executed is not executed again
RouteVisit_visited(m, f, e, cg, ags) ==
    IF e.source_node # f.src \/ e.source_port # "message_out" THEN m
    ELSE IF cg = NoGraph THEN Raise(m)
    ELSE LET tn == GetNode(cg, e.target_node)
         IN CASE tn.type = "text_output" -> ExitDeliver(m, f, tn.id)
              [] tn.type = "agent" ->
                    IF /\ tn.id \in DOMAIN ags
                       /\ \A k \in DOMAIN m.log :
                             ~(m.log[k].kind = "exec" /\ m.log[k].tgt = tn.id)
                    THEN StartTurn(m, f, tn.id) ELSE m
              [] tn.type = "wait_and_combine" ->
                    deliver_to_wait_and_combine(m, f, tn.id, cg)
              [] tn.type = "message_buffer" -> BufferVisit(m, f, e, cg)
              [] OTHER -> m

\* one iteration of the loop of _route_messages
RouteVisit(m, f, e, cg, ags) ==
    IF e.source_node # f.src \/ e.source_port # "message_out" THEN m
    ELSE IF cg = NoGraph THEN Raise(m)
    ELSE LET tn == GetNode(cg, e.target_node)
         IN CASE tn.type = "text_output" -> ExitDeliver(m, f, tn.id)
              [] tn.type = "agent" ->
                    IF tn.id \in DOMAIN ags THEN StartTurn(m, f, tn.id) ELSE m
              [] tn.type = "wait_and_combine" ->
                    deliver_to_wait_and_combine(m, f, tn.id, cg)
              [] tn.type = "message_buffer" -> BufferVisit(m, f, e, cg)
              [] OTHER -> m

\* one iteration of the loop of send_user_message over the edges of the
\* text input node
SendVisit(m, f, e, cg, ags) ==
    IF e.source_node # f.src \/ e.edge_type # "message" THEN m
    ELSE IF cg = NoGraph THEN Raise(m)
    ELSE LET tn == GetNode(cg, e.target_node)
         IN CASE tn.type = "agent" ->
                    IF tn.id \in DOMAIN ags THEN StartTurn(m, f, tn.id) ELSE m
              [] tn.type = "wait_and_combine" ->
                    deliver_to_wait_and_combine(m, f, tn.id, cg)
              [] tn.type = "message_buffer" -> BufferVisit(m, f, e, cg)
              [] OTHER -> m

\* one iteration of the loop of scheduled_tick_async over its targets; the
\* target type is the one recorded at deploy from the deployed graph
TickVisitTarget(m, f, e, cg, ags) ==
    LET tt == e.node_type
    IN CASE tt = "agent" ->
               IF e.target_node \in DOMAIN ags
               THEN StartTurn(m, f, e.target_node) ELSE m
         [] tt = "wait_and_combine" ->
               deliver_to_wait_and_combine(m, f, e.target_node, cg)
         [] tt = "message_buffer" -> BufferVisit(m, f, e, cg)
         [] OTHER -> m

\* self.agents.keys(): the agents in the order of their creation, which is
\* the order of the agent nodes of the deployed graph
AgentKeys(g, ags) ==
    IF g = NoGraph THEN << >>
    ELSE LET ns == SelectSeq(design[g].nodes,
                       LAMBDA n : n.type = "agent" /\ n.id \in DOMAIN ags)
         IN [i \in DOMAIN ns |-> ns[i].id]

\* one iteration of the loop of send_user_message over self.agents, for a
\* graph without an input node of the kind
DirectVisit(m, f, a, cg, ags) ==
    IF cg = NoGraph THEN Raise(m) ELSE StartTurn(m, f, a)

\* run the walk to its next suspension point, its end or an exception; the
\* loop over self.agents reads the dict itself and raises when its size
\* has changed
RECURSIVE Run(_, _, _)
Run(m, cg, ags) ==
    IF m.st # "run" THEN m
    ELSE IF m.stack = << >> THEN [m EXCEPT !.st = "done"]
    ELSE LET f == Head(m.stack)
             items == IF f.kind = "direct" THEN AgentKeys(cg, ags)
                      ELSE Items(f)
         IN IF f.kind = "direct" /\ Cardinality(DOMAIN ags) # Len(f.items)
            THEN Raise(m)
            ELSE IF f.i > Len(items) THEN Run(Pop(m), cg, ags)
            ELSE LET m1 == Advance(m)
                     e == items[f.i]
                 IN Run(CASE f.kind = "route" -> RouteVisit(m1, f, e, cg, ags)
                          [] f.kind = "send" -> SendVisit(m1, f, e, cg, ags)
                          [] f.kind = "direct" ->
                                DirectVisit(m1, f, e, cg, ags)
                          [] OTHER -> TickVisitTarget(m1, f, e, cg, ags),
                        cg, ags)

\* faulty variant of Respond: the reply of every agent of the walk is listed
Respond_all(m, reply) ==
    IF reply # << >>
    THEN [m EXCEPT !.responses =
            Append(@, [agent_id |-> m.agent, response |-> reply[1].content])]
    ELSE m

\* send_user_message: responses.append for the non-empty reply of an agent
\* that the entry call itself executed (runtime.py:581-586, 608-613)
Respond(m, reply) ==
    IF reply # << >> /\ Head(m.stack).kind \in {"send", "direct"}
    THEN [m EXCEPT !.responses =
            Append(@, [agent_id |-> m.agent, response |-> reply[1].content])]
    ELSE m

\* after the awaited turn returned: a non-empty reply is routed from the
\* agent (runtime.py:386-387, 545-546, 608-614)
Resume(m, reply, cg, ags) ==
    Run(PushRoute(Respond([m EXCEPT !.st = "run"], reply),
                  Head(m.stack).g, m.agent, reply, cg),
        cg, ags)

\* ------------------------------------------------------------ scheduler
TaskKey(id, d) == [id |-> id, dep |-> d]

\* the callback the runtime registers: scheduled_tick_async with the values
\* it closes over (the deployed graph, its targets, the event name and the
\* message content)
TickCallback(g, n) ==
    [kind |-> "tick", cb_graph |-> g, event_name |-> n.name,
     content |-> n.message_content, targets |-> TargetInfo(g, n.id)]

\* a callback of another client of the scheduler: a plain function
\* ("sync": its work is done when the call returns, or it raises) or a
\* coroutine function ("async": the call returns a pending awaitable)
PlainCallback(kind) ==
    [kind |-> kind, cb_graph |-> NoGraph, event_name |-> None,
     content |-> None, targets |-> << >>]

CallbackKinds == {"sync", "async"}

\* ScheduledTask
ScheduledTask(tt, ra, iv, lr, cb) ==
    [trigger_type |-> tt, run_at |-> ra, interval_seconds |-> iv,
     last_run |-> lr, enabled |-> TRUE, run_count |-> 0, callback |-> cb]

\* faulty variant of should_run: a once task does not look at run_count
should_run_recount(t, now) ==
    IF ~t.enabled THEN FALSE
    ELSE IF t.trigger_type = "once"
         THEN t.run_at # NoTime /\ now >= t.run_at
    ELSE IF t.trigger_type = "interval"
         THEN IF t.last_run = NoTime THEN TRUE
              ELSE now - t.last_run >= t.interval_seconds
    ELSE FALSE

\* ScheduledTask.should_run
should_run(t, now) ==
    IF ~t.enabled THEN FALSE
    ELSE IF t.trigger_type = "once"
         THEN t.run_at # NoTime /\ now >= t.run_at /\ t.run_count = 0
    ELSE IF t.trigger_type = "interval"
         THEN IF t.last_run = NoTime THEN TRUE
              ELSE now - t.last_run >= t.interval_seconds
    ELSE FALSE

\* self.tasks[task_id] = task (the dict keeps insertion order)
PutTask(R, key, task) ==
    LET ts == IF \E k \in Range(R.tasks) : k.id = key.id
              THEN [i \in DOMAIN R.tasks |->
                       IF R.tasks[i].id = key.id THEN key ELSE R.tasks[i]]
              ELSE Append(R.tasks, key)
    IN [R EXCEPT !.tasks = ts, !.taskobj = MapPut(@, key, task)]

\* Scheduler.schedule_once
schedule_once(R, key, run_at, cb) ==
    PutTask(R, key, ScheduledTask("once", run_at, 0, NoTime, cb))

\* faulty variant of schedule_interval: last_run is never seeded
schedule_interval_eager(R, key, interval_seconds, start_immediately, cb, now) ==
    PutTask(R, key, ScheduledTask("interval", NoTime, interval_seconds,
                                  NoTime, cb))

\* Scheduler.schedule_interval
schedule_interval(R, key, interval_seconds, start_immediately, cb, now) ==
    PutTask(R, key, ScheduledTask("interval", NoTime, interval_seconds,
                                  IF start_immediately THEN NoTime ELSE now,
                                  cb))

\* Scheduler.cancel_task
cancel_task(R, id) ==
    [R EXCEPT !.tasks = SelectSeq(@, LAMBDA k : k.id # id)]

\* _run_loop after a callback returned: run_count, last_run, once disables
AfterRun(objs, key, now) ==
    [objs EXCEPT ![key] =
        [@ EXCEPT !.run_count = @ + 1, !.last_run = now,
                  !.enabled = IF objs[key].trigger_type = "once"
                              THEN FALSE ELSE @]]

\* faulty variant of AfterCallback: a callback that raised is counted
AfterCallback_counted(objs, key, now, outcome) == AfterRun(objs, key, now)

\* _run_loop, the try block around the callback: an exception skips the
\* updates; any return value, a pending awaitable included, is dropped and
\* the run is counted
AfterCallback(objs, key, now, outcome) ==
    IF outcome = "raise" THEN objs ELSE AfterRun(objs, key, now)

\* the table entry of task id
KeyOf(ts, id) == CHOOSE k \in Range(ts) : k.id = id

\* Scheduler.pause_task
pause_task(R, id) ==
    IF \E k \in Range(R.tasks) : k.id = id
    THEN [R EXCEPT !.taskobj[KeyOf(R.tasks, id)].enabled = FALSE]
    ELSE R

\* Scheduler.resume_task
resume_task(R, id) ==
    IF \E k \in Range(R.tasks) : k.id = id
    THEN [R EXCEPT !.taskobj[KeyOf(R.tasks, id)].enabled = TRUE]
    ELSE R

\* task objects stay alive while the table or the tick's snapshot holds them
Collect(objs, ts, snap) ==
    [k \in { x \in DOMAIN objs : x \in Range(ts) \cup Range(snap) } |-> objs[k]]

\* -------------------------------------------------------------- runtime
\* _stop_scheduled_event_node for every scheduled event node of the graph
RECURSIVE StopScheduled(_, _)
StopScheduled(R, nodes) ==
    IF nodes = << >> THEN R
    ELSE StopScheduled(IF Head(nodes).type = "scheduled_event"
                       THEN cancel_task(R, Head(nodes).id) ELSE R,
                       Tail(nodes))

\* faulty variant of undeploy: the agents of the deployment are kept
undeploy_keep(R) ==
    IF ~R.is_deployed \/ R.current_agent_graph = NoGraph THEN R
    ELSE [StopScheduled(R, design[R.current_agent_graph].nodes)
            EXCEPT !.current_agent_graph = NoGraph,
                   !.is_deployed = FALSE]

\* AgentGraphRuntime.undeploy
undeploy(R) ==
    IF ~R.is_deployed \/ R.current_agent_graph = NoGraph THEN R
    ELSE [StopScheduled(R, design[R.current_agent_graph].nodes)
            EXCEPT !.agents = EmptyMap,
                   !.knowledge_graphs = EmptyMap,
                   !.wait_and_combine_states = EmptyMap,
                   !.message_buffers = DropBuffers,
                   !.current_agent_graph = NoGraph,
                   !.is_deployed = FALSE]

\* _start_scheduled_event_node
start_scheduled_event_node(R, n, g, d, now) ==
    IF TargetInfo(g, n.id) = << >> THEN R
    ELSE IF n.trigger_type = "once"
         THEN IF n.run_at = NoTime THEN R
              ELSE schedule_once(R, TaskKey(n.id, d), n.run_at,
                                 TickCallback(g, n))
    ELSE schedule_interval(R, TaskKey(n.id, d), n.interval_seconds, FALSE,
                           TickCallback(g, n), now)

RECURSIVE StartScheduled(_, _, _, _, _)
StartScheduled(R, nodes, g, d, now) ==
    IF nodes = << >> THEN R
    ELSE StartScheduled(IF Head(nodes).type = "scheduled_event"
                        THEN start_scheduled_event_node(R, Head(nodes), g, d, now)
                        ELSE R,
                        Tail(nodes), g, d, now)

\* _create_wait_and_combine_node
create_wait_and_combine_node(g, w) ==
    [expected_senders |->
        { e.source_node : e \in
            { x \in Range(get_edges_for_node(g, w)) :
                /\ x.edge_type = "message"
                /\ x.target_node = w
                /\ x.target_port = "message_in" } },
     senders_received |-> {},
     pending_messages |-> << >>]

Merge(old, new) ==
    [x \in (DOMAIN old) \cup (DOMAIN new) |->
        IF x \in DOMAIN new THEN new[x] ELSE old[x]]

\* the node creations of _instantiate_agent_graph that can raise, in order:
\* storage calls of the first pass, template loading of the second
CreationSteps(g) ==
    SelectSeq(design[g].nodes, LAMBDA n : n.type = "knowledge_graph")
        \o NodesOfType(g, "agent")

\* _instantiate_agent_graph; fail = k > 0 makes the k-th creation raise
instantiate_agent_graph(R, g, fail, d, now) ==
    LET steps == CreationSteps(g)
        done == IF fail = 0 THEN Len(steps) ELSE fail - 1
        made == { steps[i] : i \in 1 .. done }
        R2 == [R EXCEPT
                 !.knowledge_graphs = Merge(@,
                    [k \in { n.id : n \in { x \in made :
                              x.type = "knowledge_graph" } } |-> d]),
                 !.agents = Merge(@,
                    [a \in { n.id : n \in { x \in made :
                              x.type = "agent" } } |-> d])]
        R3 == [R2 EXCEPT !.message_buffers = BuildBuffers(g)]
        R4 == StartScheduled(R3, design[g].nodes, g, d, now)
    IN IF fail # 0 THEN [R2 EXCEPT !.raised = TRUE]
       ELSE [R4 EXCEPT !.wait_and_combine_states = Merge(@,
                [w \in { n.id : n \in Range(NodesOfType(g, "wait_and_combine")) }
                    |-> create_wait_and_combine_node(g, w)])]

\* AgentGraphRuntime.deploy
deploy(R, g, fail, d, now) ==
    LET R0 == IF R.is_deployed THEN undeploy(R) ELSE R
        R1 == instantiate_agent_graph(
                 [R0 EXCEPT !.current_agent_graph = g], g, fail, d, now)
    IN IF R1.raised THEN R1 ELSE [R1 EXCEPT !.is_deployed = TRUE]

\* ------------------------------------------------------- runtime state
AgentIds ==
    UNION { { n.id : n \in { x \in Range(Designs[g].nodes) : x.type = "agent" } } :
              g \in DOMAIN Designs }

RT ==
    [is_deployed |-> is_deployed,
     current_agent_graph |-> current_agent_graph,
     agents |-> agents,
     knowledge_graphs |-> knowledge_graphs,
     wait_and_combine_states |-> wait_and_combine_states,
     message_buffers |-> message_buffers,
     tasks |-> tasks,
     taskobj |-> taskobj,
     raised |-> FALSE]

SetRT(R) ==
    /\ is_deployed' = R.is_deployed
    /\ current_agent_graph' = R.current_agent_graph
    /\ agents' = R.agents
    /\ knowledge_graphs' = R.knowledge_graphs
    /\ wait_and_combine_states' = R.wait_and_combine_states
    /\ message_buffers' = R.message_buffers
    /\ tasks' = R.tasks
    /\ taskobj' = Collect(R.taskobj, R.tasks, sched.snap)

\* the knowledge graph nodes of the designs
KgNodeIds ==
    UNION { { n.id : n \in { x \in Range(Designs[g].nodes) :
                                x.type = "knowledge_graph" } } :
              g \in DOMAIN Designs }

\* no knowledge graph call made: empty tables, an empty graph per node
NoCallYet == [op |-> None, res |-> None]

NoKnowledge ==
    /\ kg_entities = << >>
    /\ kg_relationships = << >>
    /\ kg_seq = [ent |-> 0, rel |-> 0]
    /\ kg_graph = [k \in KgNodeIds |-> [nodes |-> EmptyMap, edges |-> EmptyMap]]
    /\ kg_out = NoCallYet

\* the memory stream nodes of the designs
StreamIds ==
    UNION { { n.id : n \in { x \in Range(Designs[g].nodes) :
                                x.type = "memory_stream" } } :
              g \in DOMAIN Designs }

\* a caller: idle, or suspended in the turn of agent (the instance created
\* by deploy call dep) on input; err tells that its last walk raised
IdleProc ==
    [pc |-> "idle", stack |-> << >>, agent |-> None, dep |-> 0,
     input |-> << >>, err |-> FALSE, responses |-> << >>]

ProcAfter(m, ags) ==
    [pc |-> IF m.st = "turn" THEN "turn" ELSE "idle",
     stack |-> m.stack,
     agent |-> IF m.st = "turn" THEN m.agent ELSE None,
     dep |-> IF m.st = "turn" THEN ags[m.agent] ELSE 0,
     input |-> IF m.st = "turn" THEN m.input ELSE << >>,
     err |-> (m.st = "raise"),
     responses |-> m.responses]

CommitWalk(p, m) ==
    /\ message_buffers' = m.bufs
    /\ wait_and_combine_states' = m.wac
    /\ walk_log' = [walk_log EXCEPT ![p] = m.log]
    /\ procs' = [procs EXCEPT ![p] = ProcAfter(m, agents)]
    /\ exec_count' = IF m.st = "turn"
                     THEN [exec_count EXCEPT ![m.agent] = @ + 1]
                     ELSE exec_count
    /\ last_input' = IF m.st = "turn"
                     THEN [last_input EXCEPT ![m.agent] = m.input]
                     ELSE last_input

\* the task ids that clients other than the runtime schedule
PlainIds == {"t1", "t2"}

\* one event of a task: its creation or the outcome of a callback call
Event(ev, now, arg) == [ev |-> ev, now |-> now, arg |-> arg]

NoHist == [id \in PlainIds |-> << >>]

\* AgentGraphRuntime.__init__
FreshRT ==
    [is_deployed |-> FALSE,
     current_agent_graph |-> NoGraph,
     agents |-> EmptyMap,
     knowledge_graphs |-> EmptyMap,
     wait_and_combine_states |-> EmptyMap,
     message_buffers |-> EmptyMap,
     tasks |-> << >>,
     taskobj |-> EmptyMap,
     raised |-> FALSE]

\* no agent is in a turn; the memory streams of the project are empty
InitTurns ==
    /\ tstack = [p \in Procs |-> << >>]
    /\ memory_streams = [s \in StreamIds |-> << >>]
    /\ tlog = << >>
    /\ llm_calls = 0

\* SQLiteStorageBackend.initialize on a new file: the schema, no rows, the
\* AUTOINCREMENT counters at 0
EmptyTables ==
    [projects |-> {}, kgs |-> << >>, mss |-> << >>, ent |-> << >>,
     rel |-> << >>, obs |-> << >>, vec |-> << >>,
     seq |-> [kgs |-> 0, mss |-> 0, ent |-> 0, rel |-> 0, obs |-> 0]]

\* the callers of the storage backend
Callers == {"c1", "c2"}

IdleCall == [op |-> None, pc |-> "idle"]

\* no storage call is running or has returned
NoCalls ==
    /\ co = [c \in Callers |-> IdleCall]
    /\ rets = {}
    /\ wall = 0

NoStore == disk = EmptyTables /\ conn = EmptyTables /\ NoCalls

\* ExecutionGraph(): every field as its default factory makes it
ExecutionGraph ==
    [executables |-> {}, message_buffers |-> {}, routing |-> << >>,
     exit_ids |-> {}]

\* no execution graph built
NoBuild == execution_graph = ExecutionGraph

InitInner == InitTurns /\ NoKnowledge /\ NoStore /\ NoBuild

\* AgentGraphRuntime.__init__ and Scheduler.__init__: nothing deployed
\* AgentGraphRuntime.__init__ and Scheduler.__init__, with the design graphs
\* of the loaded projects
InitWith(graphs) ==
    /\ design = graphs
    /\ hist = NoHist
    /\ clock = 0
    /\ calls = 0
    /\ deploy_count = 0
    /\ is_deployed = FreshRT.is_deployed
    /\ current_agent_graph = FreshRT.current_agent_graph
    /\ agents = FreshRT.agents
    /\ knowledge_graphs = FreshRT.knowledge_graphs
    /\ wait_and_combine_states = FreshRT.wait_and_combine_states
    /\ message_buffers = FreshRT.message_buffers
    /\ tasks = FreshRT.tasks
    /\ taskobj = FreshRT.taskobj
    /\ sched = [pc |-> "sleep", now |-> 0, snap |-> << >>, i |-> 1, wake |-> 0]
    /\ procs = [p \in Procs |-> IdleProc]
    /\ walk_log = [p \in Procs |-> << >>]
    /\ sent = 0
    /\ exec_count = [a \in AgentIds |-> 0]
    /\ last_input = [a \in AgentIds |-> << >>]
    /\ cb_count = 0

InitRuntime == InitWith(Designs)

Init == InitRuntime /\ InitInner

\* -------------------------------------------------------------- actions
\* the wall clock advances
Tick(horizon) ==
    /\ UNCHANGED aux
    /\ clock < horizon
    /\ clock' = clock + 1
    /\ UNCHANGED << calls, deploy_count, is_deployed, current_agent_graph, agents,
                    knowledge_graphs, wait_and_combine_states,
                    message_buffers, tasks, taskobj, sched, procs, walk_log,
                    sent, exec_count, last_input, cb_count >>

AdvanceClock == Tick(MaxClock)

\* AgentGraphRuntime.deploy(agent_graph, project_id)
Deploy(g, fail) ==
    /\ UNCHANGED aux
    /\ calls < MaxCalls
    /\ calls' = calls + 1
    /\ fail \in 0 .. Len(CreationSteps(g))
    /\ deploy_count' = deploy_count + 1
    /\ SetRT(deploy(RT, g, fail, deploy_count + 1, clock))
    /\ UNCHANGED << clock, sched, procs, walk_log, sent, exec_count, last_input, cb_count >>

\* AgentGraphRuntime.undeploy()
Undeploy ==
    /\ UNCHANGED aux
    /\ calls < MaxCalls
    /\ calls' = calls + 1
    /\ SetRT(undeploy(RT))
    /\ UNCHANGED << clock, deploy_count, sched, procs, walk_log, sent,
                    exec_count, last_input, cb_count >>

\* send_user_message / send_voice_message up to the first awaited agent
\* turn: the walk starts at the first node of type ntype, or, when the
\* graph has none, runs over every agent
EntryWalk(ntype, messages) ==
    LET cg == current_agent_graph
        tin == IF cg = NoGraph THEN << >> ELSE NodesOfType(cg, ntype)
        st0 == IF cg = NoGraph THEN << >>
               ELSE IF tin = << >>
               THEN << Frame("direct", None, messages, cg, 1,
                             AgentKeys(cg, agents)) >>
               ELSE << Frame("send", tin[1].id, messages, cg, 1,
                             design[cg].edges) >>
    IN Run(Machine(st0, message_buffers, wait_and_combine_states,
                   IF tin = << >> THEN << >>
                   ELSE << Emit(cg, tin[1].id, messages) >>),
           cg, agents)

\* the message list of the next entry call
NextMessages == << Message("User", UserContent[sent + 1]) >>

\* an entry call of caller p; the responses it returns are kept in procs
EntryCall(p, ntype) ==
    /\ UNCHANGED aux
    /\ p \in Users
    /\ procs[p].pc = "idle"
    /\ sent' = sent + 1
    /\ CommitWalk(p, EntryWalk(ntype, NextMessages))
    /\ UNCHANGED << clock, deploy_count, is_deployed, current_agent_graph,
                    agents, knowledge_graphs, tasks, taskobj, sched,
                    cb_count >>

\* AgentGraphRuntime.send_user_message(content, user)
Send(p) == EntryCall(p, "text_input")

\* AgentGraphRuntime.send_voice_message(content, user)
SendVoice(p) == EntryCall(p, "voice_input")

SendUserMessage(p) ==
    /\ calls < MaxCalls
    /\ calls' = calls + 1
    /\ Send(p)

SendVoiceMessage(p) ==
    /\ calls < MaxCalls
    /\ calls' = calls + 1
    /\ SendVoice(p)

\* an awaited agent turn returns its reply (Agent.execute returns one
\* message from the agent, or the empty list); the walk continues to its
\* next suspension point.  For the scheduler's walk the end of the callback
\* returns to _run_loop.
ReturnTo(p, reply) ==
    /\ procs[p].pc = "turn"
    /\ LET a == procs[p].agent
           m0 == [Machine(procs[p].stack, message_buffers,
                          wait_and_combine_states, walk_log[p])
                     EXCEPT !.agent = a, !.responses = procs[p].responses]
           m == Resume(m0, reply, current_agent_graph, agents)
           key == sched.snap[sched.i]
       IN /\ CommitWalk(p, m)
          /\ IF p = "sched" /\ m.st # "turn"
             THEN /\ sched' = [sched EXCEPT !.pc = "scan", !.i = @ + 1]
                  /\ taskobj' = AfterCallback(taskobj, key, sched.now,
                                              m.st)
             ELSE UNCHANGED << sched, taskobj >>
    /\ UNCHANGED << calls, clock, deploy_count, is_deployed, current_agent_graph,
                    agents, knowledge_graphs, tasks, sent, cb_count >>

\* the turn seen from the runtime: it returns one message or the empty list
TurnReturn(p, nonempty) ==
    /\ UNCHANGED aux
    /\ ReturnTo(p, IF nonempty THEN << Message(procs[p].agent, "re") >>
                   ELSE << >>)

\* Scheduler._run_loop: now = datetime.now(); tasks_to_check = list(tasks)
TickBegin ==
    /\ UNCHANGED aux
    /\ sched.pc = "sleep"
    /\ clock >= sched.wake
    /\ sched' = [sched EXCEPT !.pc = "scan", !.now = clock, !.snap = tasks,
                              !.i = 1]
    /\ UNCHANGED << calls, clock, deploy_count, is_deployed, current_agent_graph,
                    agents, knowledge_graphs, wait_and_combine_states,
                    message_buffers, tasks, taskobj, procs, walk_log, sent,
                    exec_count, last_input, cb_count >>

\* Scheduler._run_loop: one task of the snapshot; a due task has its
\* callback invoked, a raising callback is caught and not counted.  The
\* tick body of the runtime runs as a walk; a plain function returns or
\* raises; the call of a coroutine function returns its pending awaitable.
TickVisit ==
    /\ UNCHANGED << design, inner >>
    /\ sched.pc = "scan"
    /\ sched.i <= Len(sched.snap)
    /\ LET key == sched.snap[sched.i]
           task == taskobj[key]
           cb == task.callback
           messages == << Message(cb.event_name, cb.content) >>
           m == Run(Machine(<< Frame("tick", key.id, messages,
                                     cb.cb_graph, 1, cb.targets) >>,
                            message_buffers, wait_and_combine_states,
                            << Emit(cb.cb_graph, key.id, messages) >>),
                    current_agent_graph, agents)
       IN IF ~should_run(task, sched.now)
          THEN /\ sched' = [sched EXCEPT !.i = @ + 1]
               /\ UNCHANGED << wait_and_combine_states, message_buffers,
                               taskobj, procs, walk_log, exec_count,
                               last_input, cb_count, hist >>
          ELSE IF cb.kind = "tick"
          THEN /\ CommitWalk("sched", m)
               /\ cb_count' = cb_count + 1
               /\ UNCHANGED hist
               /\ IF m.st = "turn"
                  THEN /\ sched' = [sched EXCEPT !.pc = "call"]
                       /\ UNCHANGED taskobj
                  ELSE /\ sched' = [sched EXCEPT !.i = @ + 1]
                       /\ taskobj' = AfterCallback(taskobj, key, sched.now,
                                                   m.st)
          ELSE \E outcome \in IF cb.kind = "async" THEN {"pending"}
                               ELSE {"ok", "raise"} :
               /\ hist' = [hist EXCEPT ![key.id] =
                              Append(@, Event(outcome, sched.now, 0))]
               /\ cb_count' = cb_count + 1
               /\ sched' = [sched EXCEPT !.i = @ + 1]
               /\ taskobj' = AfterCallback(taskobj, key, sched.now, outcome)
               /\ UNCHANGED << wait_and_combine_states, message_buffers,
                               procs, walk_log, exec_count, last_input >>
    /\ UNCHANGED << calls, clock, deploy_count, is_deployed, current_agent_graph,
                    agents, knowledge_graphs, tasks, sent >>

\* Scheduler._run_loop: sleep(tick_interval) after the snapshot is done
TickSleep ==
    /\ UNCHANGED aux
    /\ sched.pc = "scan"
    /\ sched.i > Len(sched.snap)
    /\ sched' = [sched EXCEPT !.pc = "sleep", !.snap = << >>, !.i = 1,
                              !.wake = clock + TickInterval]
    /\ taskobj' = Collect(taskobj, tasks, << >>)
    /\ UNCHANGED << calls, clock, deploy_count, is_deployed, current_agent_graph,
                    agents, knowledge_graphs, wait_and_combine_states,
                    message_buffers, tasks, procs, walk_log, sent,
                    exec_count, last_input, cb_count >>

Next ==
    \/ AdvanceClock
    \/ \E g \in GraphIds : \E fail \in 0 .. 3 : Deploy(g, fail)
    \/ Undeploy
    \/ \E p \in Users : SendUserMessage(p)
    \/ \E p \in Procs : \E nonempty \in BOOLEAN : TurnReturn(p, nonempty)
    \/ TickBegin
    \/ TickVisit
    \/ TickSleep

Spec == Init /\ [][Next]_vars

\* ------------------------------------------- the buffered-batch scenario
\* GraphS2 is deployed at time 0; the user sends "a", "b", "c" while the
\* scheduled event S (interval 1) has not fired yet; then S fires.
S2Graph == CHOOSE g \in GraphIds : Designs[g] = GraphS2

S2Contents == << "a", "b", "c" >>

S2Task == TaskKey("S", 1)

InitS2 ==
    LET R == deploy(FreshRT, S2Graph, 0, 1, 0)
    IN /\ design = Designs
       /\ hist = NoHist
       /\ InitInner
       /\ clock = 0
       /\ calls = 0
       /\ deploy_count = 1
       /\ is_deployed = R.is_deployed
       /\ current_agent_graph = R.current_agent_graph
       /\ agents = R.agents
       /\ knowledge_graphs = R.knowledge_graphs
       /\ wait_and_combine_states = R.wait_and_combine_states
       /\ message_buffers = R.message_buffers
       /\ tasks = R.tasks
       /\ taskobj = R.taskobj
       /\ sched = [pc |-> "sleep", now |-> 0, snap |-> << >>, i |-> 1,
                   wake |-> 0]
       /\ procs = [p \in Procs |-> IdleProc]
       /\ walk_log = [p \in Procs |-> << >>]
       /\ sent = 0
       /\ exec_count = [a \in AgentIds |-> 0]
       /\ last_input = [a \in AgentIds |-> << >>]
       /\ cb_count = 0

\* the scenario is followed one tick past the first fire of S
S2Horizon == MaxClock + TickInterval

S2AdvanceClock == Tick(S2Horizon)

S2Send ==
    /\ cb_count = 0
    /\ sent < Len(S2Contents)
    /\ \E p \in Users : Send(p)
    /\ UNCHANGED calls

NextS2 ==
    \/ S2AdvanceClock
    \/ S2Send
    \/ \E p \in Procs : \E nonempty \in BOOLEAN : TurnReturn(p, nonempty)
    \/ TickBegin
    \/ TickVisit
    \/ TickSleep

SpecS2 == InitS2 /\ [][NextS2]_vars

TypeOK ==
    /\ clock \in Nat
    /\ is_deployed \in BOOLEAN
    /\ current_agent_graph \in {NoGraph} \cup DOMAIN Designs
    /\ sent \in Nat
    /\ calls \in 0 .. MaxCalls

\* ------------------------------------------------------ editing the graph
\* The graph-edit handlers of the server work on the AgentGraph object of
\* the current project, the object that deploy hands to the runtime.

\* nodes, edges and configuration updates offered to the edit handlers
NewNodes == { Node("O2", "text_output", "Text Output 2") }

NewEdges == { MsgEdge("T", "A1", "message_in") }

ConfigUpdates == { [key |-> "message_content", value |-> "stop"] }

\* a loop that runs over the edge list of graph g sees an appended edge
\* while the list is the graph's
AppendToFrames(g, e) ==
    [p \in Procs |->
        [procs[p] EXCEPT !.stack =
            [k \in DOMAIN @ |->
                IF @[k].g = g /\ @[k].live
                THEN [@[k] EXCEPT !.items = Append(@, e)] ELSE @[k]]]]

\* remove_node and remove_edge bind a new list to the graph; a loop that
\* runs over the old list keeps it
DetachFrames(g) ==
    [p \in Procs |->
        [procs[p] EXCEPT !.stack =
            [k \in DOMAIN @ |->
                IF @[k].g = g THEN [@[k] EXCEPT !.live = FALSE] ELSE @[k]]]]

UnchangedByEdit ==
    UNCHANGED << clock, deploy_count, is_deployed, current_agent_graph,
                 agents, knowledge_graphs, wait_and_combine_states,
                 message_buffers, tasks, taskobj, sched, walk_log, sent,
                 exec_count, last_input, cb_count, hist, inner >>

\* handle_add_node / AgentGraph.add_node: refused while deployed
AddNode(g, n) ==
    /\ calls < MaxCalls
    /\ calls' = calls + 1
    /\ ~is_deployed
    /\ n.id \notin { x.id : x \in Range(design[g].nodes) }
    /\ design' = [design EXCEPT ![g].nodes = Append(@, n)]
    /\ UNCHANGED procs
    /\ UnchangedByEdit

\* handle_remove_node / AgentGraph.remove_node: refused while deployed
RemoveNode(g, id) ==
    /\ calls < MaxCalls
    /\ calls' = calls + 1
    /\ ~is_deployed
    /\ design' = [design EXCEPT
          ![g].nodes = SelectSeq(@, LAMBDA n : n.id # id),
          ![g].edges = SelectSeq(@, LAMBDA e : e.source_node # id
                                              /\ e.target_node # id)]
    /\ procs' = DetachFrames(g)
    /\ UnchangedByEdit

\* handle_update_node_config: setattr for every key the config has
UpdateNodeConfig(g, id, u) ==
    /\ calls < MaxCalls
    /\ calls' = calls + 1
    /\ design' = [design EXCEPT ![g].nodes =
          [k \in DOMAIN @ |->
              IF @[k].id = id /\ u.key \in DOMAIN @[k]
              THEN [@[k] EXCEPT ![u.key] = u.value] ELSE @[k]]]
    /\ UNCHANGED procs
    /\ UnchangedByEdit

\* handle_add_edge / AgentGraph.add_edge: self.edges.append(edge)
AddEdge(g, e) ==
    /\ calls < MaxCalls
    /\ calls' = calls + 1
    /\ design' = [design EXCEPT ![g].edges = Append(@, e)]
    /\ procs' = AppendToFrames(g, e)
    /\ UnchangedByEdit

\* handle_remove_edge / AgentGraph.remove_edge; the edge id given is the one
\* of the edge at position i
RemoveEdge(g, i) ==
    /\ calls < MaxCalls
    /\ calls' = calls + 1
    /\ i \in DOMAIN design[g].edges
    /\ design' = [design EXCEPT ![g].edges =
          SubSeq(@, 1, i - 1) \o SubSeq(@, i + 1, Len(@))]
    /\ procs' = DetachFrames(g)
    /\ UnchangedByEdit

\* the project the editor has loaded
EditGraph == CHOOSE g \in GraphIds : Designs[g] = GraphS2

EditNodeIds == { n.id : n \in Range(Designs[EditGraph].nodes) \cup NewNodes }

EditEdgeSlots == 1 .. (Len(Designs[EditGraph].edges) + Cardinality(NewEdges))

\* one project: its graph is edited, deployed, undeployed and used
NextEdit ==
    \/ AdvanceClock
    \/ Deploy(EditGraph, 0)
    \/ Undeploy
    \/ \E p \in Users : SendUserMessage(p)
    \/ \E p \in Procs : \E nonempty \in BOOLEAN : TurnReturn(p, nonempty)
    \/ TickBegin
    \/ TickVisit
    \/ TickSleep
    \/ \E n \in NewNodes : AddNode(EditGraph, n)
    \/ \E id \in EditNodeIds : RemoveNode(EditGraph, id)
    \/ \E id \in EditNodeIds : \E u \in ConfigUpdates :
          UpdateNodeConfig(EditGraph, id, u)
    \/ \E e \in NewEdges : AddEdge(EditGraph, e)
    \/ \E i \in EditEdgeSlots : RemoveEdge(EditGraph, i)

SpecEdit == Init /\ [][NextEdit]_vars

\* -------------------------------------------------- the scheduler alone
\* The scheduler with clients that schedule, pause and resume tasks of
\* their own (agent_manager.py, the task handlers of the server); the
\* callbacks are plain functions or coroutine functions.

OnceTimes == {1}

Intervals == {2}

\* the scheduler is followed one tick past the latest due time
SchedHorizon == MaxClock + 1

UnchangedBySched ==
    UNCHANGED << clock, deploy_count, is_deployed, current_agent_graph,
                 agents, knowledge_graphs, wait_and_combine_states,
                 message_buffers, sched, procs, walk_log, sent, exec_count,
                 last_input, cb_count, design, inner >>

\* Scheduler.schedule_once(task_id, agent_id, callback, run_at)
ScheduleOnce(id, run_at, kind) ==
    /\ calls < MaxCalls
    /\ calls' = calls + 1
    /\ hist[id] = << >>
    /\ LET R == schedule_once(RT, TaskKey(id, 0), run_at, PlainCallback(kind))
       IN /\ tasks' = R.tasks
          /\ taskobj' = R.taskobj
    /\ hist' = [hist EXCEPT ![id] = << Event("once", clock, run_at) >>]
    /\ UnchangedBySched

\* Scheduler.schedule_interval(task_id, agent_id, callback,
\* interval_seconds, start_immediately)
ScheduleInterval(id, interval_seconds, start_immediately, kind) ==
    /\ calls < MaxCalls
    /\ calls' = calls + 1
    /\ hist[id] = << >>
    /\ LET R == schedule_interval(RT, TaskKey(id, 0), interval_seconds,
                                  start_immediately, PlainCallback(kind),
                                  clock)
       IN /\ tasks' = R.tasks
          /\ taskobj' = R.taskobj
    /\ hist' = [hist EXCEPT ![id] =
          << Event(IF start_immediately THEN "interval_now" ELSE "interval",
                   clock, interval_seconds) >>]
    /\ UnchangedBySched

\* handle_pause_task / Scheduler.pause_task
PauseTask(id) ==
    /\ calls < MaxCalls
    /\ calls' = calls + 1
    /\ taskobj' = pause_task(RT, id).taskobj
    /\ UNCHANGED << tasks, hist >>
    /\ UnchangedBySched

\* handle_resume_task / Scheduler.resume_task
ResumeTask(id) ==
    /\ calls < MaxCalls
    /\ calls' = calls + 1
    /\ taskobj' = resume_task(RT, id).taskobj
    /\ UNCHANGED << tasks, hist >>
    /\ UnchangedBySched

SchedAdvanceClock == Tick(SchedHorizon)

\* the scheduler alone: no project is loaded
InitSched == InitWith(<< >>) /\ InitInner

NextSched ==
    \/ SchedAdvanceClock
    \/ \E id \in PlainIds : \E t \in OnceTimes : \E kind \in CallbackKinds :
          ScheduleOnce(id, t, kind)
    \/ \E id \in PlainIds : \E iv \in Intervals : \E si \in BOOLEAN :
          \E kind \in CallbackKinds : ScheduleInterval(id, iv, si, kind)
    \/ \E id \in PlainIds : PauseTask(id)
    \/ \E id \in PlainIds : ResumeTask(id)
    \/ TickBegin
    \/ TickVisit
    \/ TickSleep

SpecSched == InitSched /\ [][NextSched]_vars

\* ------------------------------------------------- entry and exit paths
\* One deployment, used through both entry calls; the scheduler is not
\* started.
EntryGraphIds ==
    { g \in DOMAIN Designs : Designs[g] \in {GraphFan, GraphEntry, GraphBare} }

\* handle_deploy_project for a project that is not deployed yet
DeployOnce(g) ==
    /\ ~is_deployed
    /\ Deploy(g, 0)

NextEntry ==
    \/ \E g \in EntryGraphIds : DeployOnce(g)
    \/ \E p \in Users : SendUserMessage(p)
    \/ \E p \in Users : SendVoiceMessage(p)
    \/ \E p \in Procs : \E nonempty \in BOOLEAN : TurnReturn(p, nonempty)

SpecEntry == Init /\ [][NextEntry]_vars

\* ------------------------------------------------------------ agent turns
\* Agent.execute in steps: the turn begins (the input is stored and the
\* context is built), the adapter is called, the tool calls of a response
\* are run one by one, the adapter is called again, until a response has
\* no tool calls or the adapter raises.  A delegate tool runs the turn of
\* the asked agent inside the tool step of the asking agent, so the turns
\* of one caller form a stack.

\* Agent.__init__: context_size
ContextSize == 25

\* create_delegate_tool: target_name.lower() with ' ' and '-' made '_'
SafeName(n) ==
    CASE n = "A" -> "a"
      [] n = "B" -> "b"
      [] n = "Text Input" -> "text_input"
      [] OTHER -> n

\* the name of a tool of a toolbox node
ToolName(t) == << "tool", t >>

\* create_delegate_tool: tool_name = f"ask_{safe_name}"
AskName(target_name) == << "ask", SafeName(target_name) >>

\* the resource node at the other end of an edge of agent a
ResourceEnd(e, a) ==
    IF e.source_node = a THEN e.target_node ELSE e.source_node

\* the resource edges of agent a to nodes of type t
ResourceEdges(g, a, t) ==
    SelectSeq(get_edges_for_node(g, a),
              LAMBDA e : /\ e.edge_type = "resource"
                         /\ GetNode(g, ResourceEnd(e, a)).type = t)

\* _create_agent_node: the memory stream bound to the agent, None for a
\* stateless agent; the last resource edge to a memory stream wins
memory_stream_of(g, a) ==
    LET es == ResourceEdges(g, a, "memory_stream")
    IN IF es = << >> THEN None ELSE ResourceEnd(es[Len(es)], a)

\* _create_agent_node: the delegate edges that leave the ask port of a
DelegateEdges(g, a) ==
    SelectSeq(get_edges_for_node(g, a),
              LAMBDA e : /\ e.edge_type = "delegate"
                         /\ e.source_node = a
                         /\ e.source_port = "ask"
                         /\ GetNode(g, e.target_node).type = "agent")

\* _create_agent_node: the toolbox of the agent, tool name -> tool; the
\* tools of the bound toolbox nodes, then one delegate tool per delegate
\* edge (a later tool of the same name replaces the earlier)
toolbox_of(g, a) ==
    LET tbs == ResourceEdges(g, a, "toolbox")
        plain == UNION { { ToolName(t) :
                             t \in Range(GetNode(g, ResourceEnd(e, a)).tools) } :
                         e \in Range(tbs) }
        des == DelegateEdges(g, a)
        ask == { AskName(GetNode(g, e.target_node).name) : e \in Range(des) }
        LastEdge(n) == CHOOSE i \in DOMAIN des :
                      /\ AskName(GetNode(g, des[i].target_node).name) = n
                      /\ \A j \in DOMAIN des :
                            AskName(GetNode(g, des[j].target_node).name) = n
                               => j <= i
    IN [n \in plain \cup ask |->
          IF n \in ask
          THEN [kind |-> "delegate",
                target_node_id |-> des[LastEdge(n)].target_node,
                source_name |-> GetNode(g, a).name]
          ELSE [kind |-> "plain", target_node_id |-> None,
                source_name |-> None]]

\* one entry of an LLM context or the content of an observation: a Message
\* (role system or user), a Response (role assistant) or a ToolCallResult
NoCall == << 0, 0 >>

Item(role, sender, content, tool_calls, tool_call_id) ==
    [role |-> role, sender |-> sender, content |-> content,
     tool_calls |-> tool_calls, tool_call_id |-> tool_call_id]

SystemMessage == Item("system", None, "system", << >>, NoCall)

\* Message(role="user", content=f"[{msg['sender']}]: {msg['content']}")
UserMessage(msg) == Item("user", msg.sender, msg.content, << >>, NoCall)

\* ToolCallResult(tool_call_id=tool_call.id, content=..., role="tool")
ToolCallResult(id, content) == Item("tool", None, content, << >>, id)

\* a tool call as the adapter names it; args_ok tells that its arguments
\* are a JSON object the tool accepts
Call(name, args_ok) == [name |-> name, args_ok |-> args_ok]

Question == "q"

\* the tool-call lists the adapter stub can return
ToolCallLists ==
    { << Call(ToolName("run"), TRUE), Call(ToolName("nope"), TRUE) >>,
      << Call(ToolName("run"), FALSE), Call(AskName("B"), TRUE) >> }

Contents == {"", "re"}

\* the Response of the adapter; the ids of its tool calls are unique
Response(content, tcs, stamp) ==
    Item("assistant", None, content,
         [k \in DOMAIN tcs |-> [id |-> << stamp, k >>, name |-> tcs[k].name,
                                args_ok |-> tcs[k].args_ok]],
         NoCall)

\* the outcomes of adapter.chat_completion: it raises or returns; once the
\* budget of calls is used up the adapter returns responses without tool
\* calls only
ChatOutcomes(n) ==
    { [raised |-> TRUE, content |-> "", tcs |-> << >>] }
      \cup { [raised |-> FALSE, content |-> c, tcs |-> << >>] :
               c \in Contents }
      \cup { [raised |-> FALSE, content |-> "", tcs |-> t] :
               t \in IF n < MaxCalls THEN ToolCallLists ELSE {} }

\* an observation of a memory stream; tid names the turn that added it
Observation(tid, item) == [tid |-> tid, item |-> item]

\* the state of the turns of one caller: its stack of execute calls, the
\* memory streams, the log
Turns(stack, streams, log) ==
    [stack |-> stack, streams |-> streams, log |-> log]

\* one event of a turn: "begin" (arg is the input), "llm" (the adapter is
\* called with ctx), "response", "error", "tool" (arg is the result), "end"
\* (arg is the returned list); at is the length of the bound stream before
\* the input was stored and at the return
TurnEvent(ev, f, arg) ==
    [ev |-> ev, tid |-> f.tid, agent |-> f.agent, by |-> f.by, arg |-> arg,
     ctx |-> f.ctx, ms |-> f.memory_stream, at |-> 0]

\* faulty variant of Store: tool results are not persisted
Store_no_tool(T, f, item) ==
    IF f.memory_stream = None \/ item.role = "tool" THEN T
    ELSE [T EXCEPT !.streams[f.memory_stream] =
             Append(@, Observation(f.tid, item))]

\* MemoryStream.add, when a stream is bound
Store(T, f, item) ==
    IF f.memory_stream = None THEN T
    ELSE [T EXCEPT !.streams[f.memory_stream] =
             Append(@, Observation(f.tid, item))]

\* llm_messages.append
Extend(T, item) ==
    [T EXCEPT !.stack = << [Head(@) EXCEPT !.ctx = Append(@, item)] >>
                            \o Tail(@)]

\* the length of a stream, 0 without a stream
StreamLen(T, ms) == IF ms = None THEN 0 ELSE Len(T.streams[ms])

\* MemoryStream.retrieve_recent(n): the contents of the n most recent
\* observations, oldest first
retrieve_recent(stream, n) ==
    LET from == IF Len(stream) > n THEN Len(stream) - n + 1 ELSE 1
    IN [i \in 1 .. (Len(stream) - from + 1) |-> stream[from + i - 1].item]

\* Agent.execute up to the first adapter call: store the input, build the
\* context.  by is the turn whose delegate tool made the call, 0 for a
\* call of the runtime.
begin_turn(T, g, a, messages, by) ==
    LET tid == Cardinality({ i \in DOMAIN T.log : T.log[i].ev = "begin" }) + 1
        ms == memory_stream_of(g, a)
        users == [k \in DOMAIN messages |-> UserMessage(messages[k])]
        f0 == [agent |-> a, name |-> GetNode(g, a).name, tid |-> tid,
               g |-> g, by |-> by, memory_stream |-> ms, pc |-> "think",
               tool_calls |-> << >>, k |-> 1, ctx |-> << >>, ret |-> << >>]
        streams == IF ms = None THEN T.streams
                   ELSE [T.streams EXCEPT ![ms] =
                           @ \o [k \in DOMAIN users |->
                                    Observation(tid, users[k])]]
        history == IF ms = None THEN users
                   ELSE retrieve_recent(streams[ms], ContextSize)
        f == [f0 EXCEPT !.ctx = << SystemMessage >> \o history]
    IN [T EXCEPT !.streams = streams,
                 !.stack = << f >> \o @,
                 !.log = Append(@, [TurnEvent("begin", f, messages)
                                       EXCEPT !.at = StreamLen(T, ms)])]

\* the result string of a delegate tool
NoResponse == "No response from agent"

\* DelegateTool.run after the asked agent returned
DelegateResult_none(response_messages) == NoResponse

DelegateResult(response_messages) ==
    IF response_messages # << >> THEN response_messages[1].content
    ELSE NoResponse

\* a tool result is stored and appended to the context; after the last
\* tool call of the response the adapter is called again
put_result(T, content) ==
    LET f == Head(T.stack)
        c == f.tool_calls[f.k]
        r == ToolCallResult(c.id, content)
        T1 == Extend(Store(T, f, r), r)
        f1 == Head(T1.stack)
        f2 == [f1 EXCEPT !.k = @ + 1,
                         !.pc = IF f.k = Len(f.tool_calls)
                                THEN "think" ELSE "tools"]
    IN [T1 EXCEPT !.stack = << f2 >> \o Tail(@),
                  !.log = Append(@, TurnEvent("tool", f2, r))]

\* Agent.execute returns result: to the delegate tool that called it, or
\* to the runtime, whose await then yields ret
finish(T, result) ==
    LET f == Head(T.stack)
        T1 == [T EXCEPT !.stack = Tail(@),
                        !.log = Append(@, [TurnEvent("end", f, result)
                                  EXCEPT !.at = StreamLen(T, f.memory_stream)])]
    IN IF T1.stack = << >>
       THEN [T1 EXCEPT !.stack = << [f EXCEPT !.pc = "done",
                                              !.ret = result] >>]
       ELSE put_result(T1, DelegateResult(result))

\* faulty variant of Reply: the content is returned even when it is empty
Reply_always(f, response) == << Message(f.name, response.content) >>

\* Agent.execute: return [{"sender": self.name, "content": ...}] or []
Reply(f, response) ==
    IF response.content # "" THEN << Message(f.name, response.content) >>
    ELSE << >>

\* faulty variant of chat_failed: the exception leaves the reply of the
\* turn non-empty
chat_failed_reply(T) ==
    LET f == Head(T.stack)
    IN finish([T EXCEPT !.log = Append(@, TurnEvent("error", f, << >>))],
              << Message(f.name, "error") >>)

\* Agent.execute: the adapter raised; ERROR_OCCURRED is emitted, the turn
\* returns []
chat_failed(T) ==
    LET f == Head(T.stack)
    IN finish([T EXCEPT !.log = Append(@, TurnEvent("error", f, << >>))],
              << >>)

\* Agent.execute: one call of adapter.chat_completion and what follows it
\* up to the next tool call, the next adapter call or the return
think(T, o) ==
    LET f == Head(T.stack)
        T0 == [T EXCEPT !.log = Append(@, TurnEvent("llm", f, << >>))]
        r == Response(o.content, o.tcs, Len(T0.log))
        T1 == Extend(Store(T0, f, r), r)
        f1 == Head(T1.stack)
        T2 == [T1 EXCEPT !.log = Append(@, TurnEvent("response", f1, r))]
    IN IF o.raised THEN chat_failed(T0)
       ELSE IF r.tool_calls = << >> THEN finish(T2, Reply(f, r))
       ELSE [T2 EXCEPT !.stack =
               << [f1 EXCEPT !.pc = "tools", !.tool_calls = r.tool_calls,
                             !.k = 1] >> \o Tail(@)]

\* the string results of the tool loop
NotFound == "Tool not found."
ToolFailed == "Error"
NotAvailable == "Error: Agent is not available"
ToolOk == "ok"

\* faulty variant of tool_step: an unknown tool is passed over without a
\* result
tool_step_skip(T, ags, ok) ==
    LET f == Head(T.stack)
        c == f.tool_calls[f.k]
        tb == toolbox_of(f.g, f.agent)
    IN IF c.name \notin DOMAIN tb
       THEN [T EXCEPT !.stack =
               << [f EXCEPT !.k = @ + 1,
                            !.pc = IF f.k = Len(f.tool_calls)
                                   THEN "think" ELSE "tools"] >> \o Tail(@)]
       ELSE IF ~c.args_ok THEN put_result(T, ToolFailed)
       ELSE IF tb[c.name].kind = "plain"
       THEN put_result(T, IF ok THEN ToolOk ELSE ToolFailed)
       ELSE IF tb[c.name].target_node_id \notin DOMAIN ags
       THEN put_result(T, NotAvailable)
       ELSE begin_turn(T, f.g, tb[c.name].target_node_id,
                       << Message(tb[c.name].source_name, Question) >>,
                       f.tid)

\* Agent.execute: one tool call of the response.  An unknown tool, a tool
\* whose arguments fail to parse and a tool that raises give a result; a
\* delegate tool begins the turn of the asked agent.
tool_step(T, ags, ok) ==
    LET f == Head(T.stack)
        c == f.tool_calls[f.k]
        tb == toolbox_of(f.g, f.agent)
    IN IF c.name \notin DOMAIN tb THEN put_result(T, NotFound)
       ELSE IF ~c.args_ok THEN put_result(T, ToolFailed)
       ELSE IF tb[c.name].kind = "plain"
       THEN put_result(T, IF ok THEN ToolOk ELSE ToolFailed)
       ELSE IF tb[c.name].target_node_id \notin DOMAIN ags
       THEN put_result(T, NotAvailable)
       ELSE begin_turn(T, f.g, tb[c.name].target_node_id,
                       << Message(tb[c.name].source_name, Question) >>,
                       f.tid)

\* the state that the steps inside a turn leave alone
outer == << clock, calls, deploy_count, is_deployed, current_agent_graph,
            agents, knowledge_graphs, wait_and_combine_states,
            message_buffers, tasks, taskobj, sched, procs, walk_log, sent,
            exec_count, last_input, cb_count >>

TurnsOf(p) == Turns(tstack[p], memory_streams, tlog)

\* the steps of a turn write the turn state
CommitTurn(p, T) ==
    /\ tstack' = [tstack EXCEPT ![p] = T.stack]
    /\ memory_streams' = T.streams
    /\ tlog' = T.log
    /\ UNCHANGED outer
    /\ UNCHANGED << design, hist, beside >>

\* await agent.process_message(messages): the awaited turn begins
TurnBegin(p) ==
    /\ procs[p].pc = "turn"
    /\ tstack[p] = << >>
    /\ CommitTurn(p, begin_turn(TurnsOf(p), current_agent_graph,
                                procs[p].agent, procs[p].input, 0))
    /\ UNCHANGED llm_calls

\* adapter.chat_completion(llm_messages, tools)
Think(p) ==
    /\ tstack[p] # << >>
    /\ Head(tstack[p]).pc = "think"
    /\ \E o \in ChatOutcomes(llm_calls) : CommitTurn(p, think(TurnsOf(p), o))
    /\ llm_calls' = IF llm_calls < MaxCalls THEN llm_calls + 1 ELSE llm_calls

\* one iteration of the loop over response.tool_calls
ToolStep(p) ==
    /\ tstack[p] # << >>
    /\ Head(tstack[p]).pc = "tools"
    /\ \E ok \in BOOLEAN : CommitTurn(p, tool_step(TurnsOf(p), agents, ok))
    /\ UNCHANGED llm_calls

\* the awaited execute has returned: the walk of the caller goes on with
\* the reply
TurnEnd(p) ==
    /\ tstack[p] # << >>
    /\ Head(tstack[p]).pc = "done"
    /\ tstack' = [tstack EXCEPT ![p] = << >>]
    /\ ReturnTo(p, Head(tstack[p]).ret)
    /\ UNCHANGED << memory_streams, tlog, llm_calls, design, hist, beside >>

\* the designs with delegation and memory streams
TurnGraphIds == { g \in DOMAIN Designs : Designs[g] \in {GraphAsk, GraphShare} }

NextTurn ==
    \/ \E g \in TurnGraphIds : DeployOnce(g)
    \/ \E p \in Users : SendUserMessage(p)
    \/ \E p \in Users : TurnBegin(p)
    \/ \E p \in Users : Think(p)
    \/ \E p \in Users : ToolStep(p)
    \/ \E p \in Users : TurnEnd(p)

SpecTurn == Init /\ [][NextTurn]_vars

\* One entry call on a deployment of g, with fairness: the adapter call and
\* the tools return, so every step of a turn is taken at last.
DeployedOnce(g) ==
    LET R == deploy(FreshRT, g, 0, 1, 0)
    IN /\ design = Designs
       /\ hist = NoHist
       /\ clock = 0
       /\ calls = MaxCalls - 1
       /\ deploy_count = 1
       /\ is_deployed = R.is_deployed
       /\ current_agent_graph = R.current_agent_graph
       /\ agents = R.agents
       /\ knowledge_graphs = R.knowledge_graphs
       /\ wait_and_combine_states = R.wait_and_combine_states
       /\ message_buffers = R.message_buffers
       /\ tasks = R.tasks
       /\ taskobj = R.taskobj
       /\ sched = [pc |-> "sleep", now |-> 0, snap |-> << >>, i |-> 1,
                   wake |-> 0]
       /\ procs = [p \in Procs |-> IdleProc]
       /\ walk_log = [p \in Procs |-> << >>]
       /\ sent = 0
       /\ exec_count = [a \in AgentIds |-> 0]
       /\ last_input = [a \in AgentIds |-> << >>]
       /\ cb_count = 0

InitOne(g) == DeployedOnce(g) /\ InitInner

InitTurnFair == InitOne(CHOOSE g \in TurnGraphIds : Designs[g] = GraphAsk)

NextTurnFair ==
    \/ \E p \in Users : SendUserMessage(p)
    \/ \E p \in Users : TurnBegin(p)
    \/ \E p \in Users : Think(p)
    \/ \E p \in Users : ToolStep(p)
    \/ \E p \in Users : TurnEnd(p)

SpecTurnFair ==
    /\ InitTurnFair
    /\ [][NextTurnFair]_vars
    /\ \A p \in Users : WF_vars(TurnBegin(p)) /\ WF_vars(Think(p))
                           /\ WF_vars(ToolStep(p))

\* ------------------------------------------------------ failing branches
\* An awaited turn raises: an exception of Agent.execute outside the try
\* blocks around the adapter and the tools (the template, the memory
\* stream) leaves process_message; no frame of the walk catches it, the
\* scheduler loop catches what leaves its callback.
TurnRaise(p) ==
    /\ UNCHANGED aux
    /\ procs[p].pc = "turn"
    /\ LET m0 == [Machine(procs[p].stack, message_buffers,
                          wait_and_combine_states, walk_log[p])
                     EXCEPT !.agent = procs[p].agent,
                            !.responses = procs[p].responses]
           m == Raise(m0)
           key == sched.snap[sched.i]
       IN /\ CommitWalk(p, m)
          /\ IF p = "sched"
             THEN /\ sched' = [sched EXCEPT !.pc = "scan", !.i = @ + 1]
                  /\ taskobj' = AfterCallback(taskobj, key, sched.now, m.st)
             ELSE UNCHANGED << sched, taskobj >>
    /\ UNCHANGED << calls, clock, deploy_count, is_deployed, current_agent_graph,
                    agents, knowledge_graphs, tasks, sent, cb_count >>

\* a deploy call, between walks, on a runtime that is not deployed; a
\* creation step may raise and leave the graph with a part of its executables
DeployTry(g) ==
    /\ ~is_deployed
    /\ \A p \in Procs : procs[p].pc = "idle"
    /\ \E fail \in 0 .. Len(CreationSteps(g)) : Deploy(g, fail)

FailGraphIds == { g \in DOMAIN Designs : Designs[g] \in {GraphEntry, GraphBare} }

NextFail ==
    \/ \E g \in FailGraphIds : DeployTry(g)
    \/ \E p \in Users : SendUserMessage(p)
    \/ \E p \in Procs : \E nonempty \in BOOLEAN : TurnReturn(p, nonempty)
    \/ \E p \in Procs : TurnRaise(p)

SpecFail == Init /\ [][NextFail]_vars

\* ------------------------------------------------------ knowledge graphs
\* A property dict is a function from its keys to their values; the JSON
\* text of a dict is the set of its key-value pairs.
Names == {"a", "b"}

RelTypes == {"r", "s"}

PropValues == {"x", "y"}

\* the entities whose type the tools set and remove
Described == {"a"}

json_dumps(d) == { << k, d[k] >> : k \in DOMAIN d }

json_loads(j) ==
    [k \in { p[1] : p \in j } |-> (CHOOSE p \in j : p[1] = k)[2]]

DictDel(d, k) == [x \in (DOMAIN d) \ {k} |-> d[x]]

\* ---- nx.DiGraph: nodes name -> attributes, edges (u, v) -> attributes;
\* one edge per ordered pair
EmptyGraph == [nodes |-> EmptyMap, edges |-> EmptyMap]

has_node(G, n) == n \in DOMAIN G.nodes

has_edge(G, u, v) == << u, v >> \in DOMAIN G.edges

\* add_node: a new node gets the attributes, an existing one is updated
add_node(G, n, attrs) ==
    [G EXCEPT !.nodes = MapPut(@, n, IF has_node(G, n)
                                      THEN Merge(G.nodes[n], attrs)
                                      ELSE attrs)]

\* add_edge: missing end nodes are created, the attributes of an existing
\* edge are updated
add_edge(G, u, v, attrs) ==
    LET G1 == IF has_node(G, u) THEN G ELSE add_node(G, u, EmptyMap)
        G2 == IF has_node(G1, v) THEN G1 ELSE add_node(G1, v, EmptyMap)
    IN [G2 EXCEPT !.edges = MapPut(@, << u, v >>,
                                   IF has_edge(G, u, v)
                                   THEN Merge(G.edges[<< u, v >>], attrs)
                                   ELSE attrs)]

\* remove_node: the node and the edges at it
remove_node(G, n) ==
    [nodes |-> DictDel(G.nodes, n),
     edges |-> [e \in { x \in DOMAIN G.edges : x[1] # n /\ x[2] # n }
                   |-> G.edges[e]]]

remove_edge(G, u, v) == [G EXCEPT !.edges = DictDel(@, << u, v >>)]

\* ---- KnowledgeGraph: each operation gives the graph after it and the
\* message it returns ("ok" for the success message)
KgRet(G, res) == [graph |-> G, res |-> res]

EntityExists == "Error: Entity already exists."

NoEntity == "Error: Entity does not exist."

NoProperty == "Error: Property does not exist."

RelationshipExists == "Error: Relationship already exists."

NoRelationship == "Error: Relationship does not exist."

add_entity(G, entity, properties) ==
    IF has_node(G, entity)
    THEN KgRet(G, EntityExists)
    ELSE KgRet(add_node(G, entity, properties), "ok")

add_entity_property(G, entity, property, value) ==
    IF ~has_node(G, entity)
    THEN KgRet(G, NoEntity)
    ELSE KgRet([G EXCEPT !.nodes[entity] = MapPut(@, property, value)], "ok")

remove_entity(G, entity) ==
    IF ~has_node(G, entity)
    THEN KgRet(G, NoEntity)
    ELSE KgRet(remove_node(G, entity), "ok")

remove_entity_property(G, entity, property) ==
    IF ~has_node(G, entity)
    THEN KgRet(G, NoEntity)
    ELSE IF property \notin DOMAIN G.nodes[entity]
    THEN KgRet(G, NoProperty)
    ELSE KgRet([G EXCEPT !.nodes[entity] = DictDel(@, property)], "ok")

\* the edge of the pair carries the relationship
IsRel(G, entity1, relationship, entity2) ==
    /\ has_edge(G, entity1, entity2)
    /\ "relationship" \in DOMAIN G.edges[<< entity1, entity2 >>]
    /\ G.edges[<< entity1, entity2 >>]["relationship"] = relationship

add_relationship(G, entity1, relationship, entity2, properties) ==
    IF ~has_node(G, entity1) \/ ~has_node(G, entity2)
    THEN KgRet(G, NoEntity)
    ELSE IF IsRel(G, entity1, relationship, entity2)
    THEN KgRet(G, RelationshipExists)
    ELSE KgRet(add_edge(G, entity1, entity2,
                        MapPut(properties, "relationship", relationship)),
               "ok")

remove_relationship(G, entity1, relationship, entity2) ==
    IF ~IsRel(G, entity1, relationship, entity2)
    THEN KgRet(G, NoRelationship)
    ELSE KgRet(remove_edge(G, entity1, entity2), "ok")

\* ---- queries
get_entity(G, entity) ==
    IF ~has_node(G, entity) THEN NoEntity ELSE G.nodes[entity]

get_relationship(G, entity1, relationship, entity2) ==
    IF ~IsRel(G, entity1, relationship, entity2)
    THEN NoRelationship
    ELSE [entity1 |-> entity1, relationship |-> relationship,
          entity2 |-> entity2,
          properties |-> DictDel(G.edges[<< entity1, entity2 >>],
                                 "relationship")]

\* get_neighbors(entity, "outgoing"): neighbour and relationship of each
\* edge that leaves the entity
get_neighbors(G, entity) ==
    IF ~has_node(G, entity)
    THEN {}
    ELSE { [entity |-> e[2], relationship |-> G.edges[e]["relationship"]] :
              e \in { x \in DOMAIN G.edges : x[1] = entity } }

\* ---- storage: the tables kg_entities and kg_relationships, rows in rowid
\* order; each operation gives the tables after it, what it returns (the
\* name of the exception when it raises) and the rowid of an inserted row
NoId == 0

EntRow(id, kg, n, props) ==
    [id |-> id, knowledge_graph_id |-> kg, entity_name |-> n,
     properties |-> props]

RelRow(id, kg, f, t, rel, props) ==
    [id |-> id, knowledge_graph_id |-> kg, from_entity_id |-> f,
     to_entity_id |-> t, rel_type |-> rel, properties |-> props]

Tables(ent, rel, seq) == [ent |-> ent, rel |-> rel, seq |-> seq]

DbRet(S, res, id) == [db |-> S, res |-> res, id |-> id]

\* knowledge_graphs: the row of node GraphKg.nodes[i] has id i; kg_ensure
\* gives the id of the node's row
KgTable == << "K", "K2" >>

kg_ensure(node_id) == CHOOSE i \in DOMAIN KgTable : KgTable[i] = node_id

KgIds == DOMAIN KgTable

EntRowsOf(S, kg_id, entity_name) ==
    SelectSeq(S.ent, LAMBDA r : /\ r.knowledge_graph_id = kg_id
                                /\ r.entity_name = entity_name)

kg_get_entity_id(S, kg_id, entity_name) ==
    LET rows == EntRowsOf(S, kg_id, entity_name)
    IN IF rows = << >> THEN NoId ELSE rows[1].id

kg_add_entity_replace(S, kg_id, entity_name, properties) ==
    LET id == S.seq.ent + 1
        kept == SelectSeq(S.ent, LAMBDA r : ~(/\ r.knowledge_graph_id = kg_id
                                              /\ r.entity_name = entity_name))
    IN DbRet([S EXCEPT !.ent = Append(kept, EntRow(id, kg_id, entity_name,
                                                   json_dumps(properties))),
                       !.seq.ent = id],
             "ok", id)

\* INSERT INTO kg_entities under UNIQUE(knowledge_graph_id, entity_name)
kg_add_entity(S, kg_id, entity_name, properties) ==
    IF EntRowsOf(S, kg_id, entity_name) # << >>
    THEN DbRet(S, "IntegrityError", NoId)
    ELSE LET id == S.seq.ent + 1
         IN DbRet([S EXCEPT !.ent = Append(@, EntRow(id, kg_id, entity_name,
                                                     json_dumps(properties))),
                            !.seq.ent = id],
                  "ok", id)

\* the rows of S.ent with the properties of row id replaced
WithProperties(S, id, properties) ==
    [S EXCEPT !.ent = [i \in DOMAIN S.ent |->
                          IF S.ent[i].id = id
                          THEN [S.ent[i] EXCEPT !.properties =
                                                   json_dumps(properties)]
                          ELSE S.ent[i]]]

PropertiesOf(S, id) ==
    json_loads((CHOOSE r \in Range(S.ent) : r.id = id).properties)

kg_add_entity_property(S, kg_id, entity_name, prop_name, prop_value) ==
    LET id == kg_get_entity_id(S, kg_id, entity_name)
    IN IF id = NoId
       THEN DbRet(S, None, NoId)
       ELSE DbRet(WithProperties(S, id, MapPut(PropertiesOf(S, id),
                                               prop_name, prop_value)),
                  None, NoId)

kg_remove_entity_property(S, kg_id, entity_name, prop_name) ==
    LET id == kg_get_entity_id(S, kg_id, entity_name)
    IN IF id = NoId
       THEN DbRet(S, None, NoId)
       ELSE IF prop_name \in DOMAIN PropertiesOf(S, id)
       THEN DbRet(WithProperties(S, id, DictDel(PropertiesOf(S, id),
                                                prop_name)),
                  None, NoId)
       ELSE DbRet(S, None, NoId)

kg_remove_entity_only(S, kg_id, entity_name) ==
    LET id == kg_get_entity_id(S, kg_id, entity_name)
    IN IF id = NoId
       THEN DbRet(S, None, NoId)
       ELSE DbRet([S EXCEPT !.ent = SelectSeq(@, LAMBDA r : r.id # id)],
                  None, NoId)

kg_remove_entity(S, kg_id, entity_name) ==
    LET id == kg_get_entity_id(S, kg_id, entity_name)
    IN IF id = NoId
       THEN DbRet(S, None, NoId)
       ELSE DbRet([S EXCEPT
                     !.rel = SelectSeq(@, LAMBDA r : /\ r.from_entity_id # id
                                                     /\ r.to_entity_id # id),
                     !.ent = SelectSeq(@, LAMBDA r : r.id # id)],
                  None, NoId)

kg_add_relationship_make(S, kg_id, from_entity_name, rel_type, to_entity_name, properties) ==
    LET S1 == IF kg_get_entity_id(S, kg_id, from_entity_name) = NoId
              THEN kg_add_entity(S, kg_id, from_entity_name, EmptyMap).db
              ELSE S
        S2 == IF kg_get_entity_id(S1, kg_id, to_entity_name) = NoId
              THEN kg_add_entity(S1, kg_id, to_entity_name, EmptyMap).db
              ELSE S1
        id == S2.seq.rel + 1
    IN DbRet([S2 EXCEPT
                !.rel = Append(@, RelRow(id, kg_id,
                                  kg_get_entity_id(S2, kg_id, from_entity_name),
                                  kg_get_entity_id(S2, kg_id, to_entity_name),
                                  rel_type, json_dumps(properties))),
                !.seq.rel = id],
             "ok", id)

kg_add_relationship(S, kg_id, from_entity_name, rel_type, to_entity_name, properties) ==
    LET from_id == kg_get_entity_id(S, kg_id, from_entity_name)
        to_id == kg_get_entity_id(S, kg_id, to_entity_name)
        id == S.seq.rel + 1
    IN IF from_id = NoId \/ to_id = NoId
       THEN DbRet(S, "ValueError", NoId)
       ELSE DbRet([S EXCEPT !.rel = Append(@, RelRow(id, kg_id, from_id, to_id,
                                                     rel_type,
                                                     json_dumps(properties))),
                            !.seq.rel = id],
                  "ok", id)

kg_remove_relationship(S, kg_id, from_entity_name, rel_type, to_entity_name) ==
    LET from_id == kg_get_entity_id(S, kg_id, from_entity_name)
        to_id == kg_get_entity_id(S, kg_id, to_entity_name)
    IN IF from_id = NoId \/ to_id = NoId
       THEN DbRet(S, None, NoId)
       ELSE DbRet([S EXCEPT !.rel =
                      SelectSeq(@, LAMBDA r :
                                      ~(/\ r.knowledge_graph_id = kg_id
                                        /\ r.from_entity_id = from_id
                                        /\ r.to_entity_id = to_id
                                        /\ r.rel_type = rel_type))],
                  None, NoId)

\* kg_load_full: the entities of the graph as nodes, then its relationship
\* rows in rowid order as edges; a row whose end is not an entity of the
\* graph is passed over
RECURSIVE LoadNodes(_, _)
LoadNodes(G, rows) ==
    IF rows = << >>
    THEN G
    ELSE LoadNodes(add_node(G, rows[1].entity_name,
                            json_loads(rows[1].properties)),
                   Tail(rows))

RECURSIVE LoadEdges(_, _, _)
LoadEdges(G, entities, rows) ==
    IF rows = << >>
    THEN G
    ELSE LET fs == SelectSeq(entities,
                             LAMBDA e : e.id = rows[1].from_entity_id)
             ts == SelectSeq(entities, LAMBDA e : e.id = rows[1].to_entity_id)
         IN LoadEdges(IF fs # << >> /\ ts # << >>
                      THEN add_edge(G, fs[1].entity_name, ts[1].entity_name,
                                    MapPut(json_loads(rows[1].properties),
                                           "relationship", rows[1].rel_type))
                      ELSE G,
                      entities, Tail(rows))

kg_load_full(S, node_id) ==
    LET kg_id == kg_ensure(node_id)
        entities == SelectSeq(S.ent, LAMBDA r : r.knowledge_graph_id = kg_id)
        relationships == SelectSeq(S.rel,
                                   LAMBDA r : r.knowledge_graph_id = kg_id)
    IN LoadEdges(LoadNodes(EmptyGraph, entities), entities, relationships)

\* ---- the calls
\* _create_agent_node: the knowledge graph node bound to the agent; the
\* last resource edge to a knowledge graph wins
knowledge_graph_of(g, a) ==
    LET es == ResourceEdges(g, a, "knowledge_graph")
    IN IF es = << >> THEN None ELSE ResourceEnd(es[Len(es)], a)

KgGraph == CHOOSE g \in DOMAIN Designs : Designs[g] = GraphKg

\* the agents of the deployed graph that are bound to a knowledge graph
KgAgents == { a \in DOMAIN agents :
                 knowledge_graph_of(current_agent_graph, a) # None }

\* the tables as one value, and their next value
Db == Tables(kg_entities, kg_relationships, kg_seq)

SetDb(S) ==
    /\ kg_entities' = S.ent
    /\ kg_relationships' = S.rel
    /\ kg_seq' = S.seq

\* the rows that an earlier session left in storage: entities a and b of
\* the first knowledge graph, as AddEntity stores them
EntityProps(n, t) == [x \in {"name", "type"} |-> IF x = "name" THEN n ELSE t]

PriorEntities ==
    << EntRow(1, 1, "a", json_dumps(EntityProps("a", "x"))),
       EntRow(2, 1, "b", json_dumps(EntityProps("b", "x"))) >>

PriorDb == Tables(PriorEntities, << >>, [ent |-> Len(PriorEntities), rel |-> 0])

\* _create_kg_node at deploy: each knowledge graph node holds what
\* kg_load_full gives for it
PriorKnowledge ==
    /\ kg_entities = PriorDb.ent
    /\ kg_relationships = PriorDb.rel
    /\ kg_seq = PriorDb.seq
    /\ kg_graph = [k \in KgNodeIds |-> kg_load_full(PriorDb, k)]
    /\ kg_out = NoCallYet

\* rows can still be inserted: the calls that insert a row are counted
CanAddEntity == kg_seq.ent < MaxEntityId

CanAddRelationship == kg_seq.rel < MaxCalls - 1

\* a call: the operation and what it returned
KgCall(op, res) == [op |-> op, res |-> res]

KgQuiet == UNCHANGED << outer, design, hist, tstack, memory_streams, tlog,
                        llm_calls, stv, execution_graph >>

\* a tool of agent a calls the knowledge graph of the agent: m is the
\* outcome on the graph object, and when that is a success the storage
\* operation r follows on the storage handle that deploy injected
ToolCall(op, a, m, r) ==
    LET k == knowledge_graph_of(current_agent_graph, a)
    IN /\ kg_graph' = [kg_graph EXCEPT ![k] = m.graph]
       /\ IF m.res = "ok"
          THEN /\ SetDb(r.db)
               /\ kg_out' = KgCall(op, IF r.res \in {"ok", None} THEN "ok"
                                                                   ELSE r.res)
          ELSE /\ UNCHANGED << kg_entities, kg_relationships, kg_seq >>
               /\ kg_out' = KgCall(op, m.res)
       /\ KgQuiet

GraphOf(a) == kg_graph[knowledge_graph_of(current_agent_graph, a)]

IdOf(a) == kg_ensure(knowledge_graph_of(current_agent_graph, a))

AddEntity(a, n, t) ==
    /\ has_node(GraphOf(a), n) \/ CanAddEntity
    /\ ToolCall("add_entity", a,
                add_entity(GraphOf(a), n, EntityProps(n, t)),
                kg_add_entity(Db, IdOf(a), n, EntityProps(n, t)))

AddPropertyToEntity(a, n, v) ==
    ToolCall("add_entity_property", a,
             add_entity_property(GraphOf(a), n, "type", v),
             kg_add_entity_property(Db, IdOf(a), n, "type", v))

RemoveEntityProperty(a, n) ==
    ToolCall("remove_entity_property", a,
             remove_entity_property(GraphOf(a), n, "type"),
             kg_remove_entity_property(Db, IdOf(a), n, "type"))

RemoveEntity(a, n) ==
    ToolCall("remove_entity", a,
             remove_entity(GraphOf(a), n),
             kg_remove_entity(Db, IdOf(a), n))

AddRelationship(a, e1, rel, e2) ==
    /\ add_relationship(GraphOf(a), e1, rel, e2, EmptyMap).res # "ok"
          \/ CanAddRelationship
    /\ ToolCall("add_relationship", a,
                add_relationship(GraphOf(a), e1, rel, e2, EmptyMap),
                kg_add_relationship(Db, IdOf(a), e1, rel, e2, EmptyMap))

RemoveRelationship(a, e1, rel, e2) ==
    ToolCall("remove_relationship", a,
             remove_relationship(GraphOf(a), e1, rel, e2),
             kg_remove_relationship(Db, IdOf(a), e1, rel, e2))

\* the state after one deploy of GraphKg on the prior storage
InitKg ==
    DeployedOnce(KgGraph) /\ InitTurns /\ PriorKnowledge /\ NoStore /\ NoBuild

\* the agents whose tools change entities, and those whose tools change
\* properties and relationships; agent B only queries
EntityWriters == KgAgents \cap {"A", "C"}

RelationWriters == KgAgents \cap {"A"}

\* the tools of the agents
NextKg ==
    \/ \E a \in EntityWriters : \E n \in Names : AddEntity(a, n, "x")
    \/ \E a \in EntityWriters : \E n \in Names : RemoveEntity(a, n)
    \/ \E a \in RelationWriters : \E n \in Described :
          AddPropertyToEntity(a, n, "y")
    \/ \E a \in RelationWriters : \E n \in Described :
          RemoveEntityProperty(a, n)
    \/ \E a \in RelationWriters : \E e1 \in Names : \E e2 \in Names \ {e1} :
          \E rel \in RelTypes : AddRelationship(a, e1, rel, e2)
    \/ \E a \in RelationWriters : \E e1 \in Names : \E e2 \in Names \ {e1} :
          \E rel \in RelTypes : RemoveRelationship(a, e1, rel, e2)

SpecKg == InitKg /\ [][NextKg]_vars

\* ------------------------------------------------------ storage backend
\* SQLiteStorageBackend: every method runs its statements on the one
\* aiosqlite connection self._conn; each await of a statement is a point
\* where another caller's statement can run, and commit makes durable
\* whatever the connection has written, whoever wrote it.
ProjectIds == {"p", "q"}

\* wall counts parts of a second: datetime.now() has them, datetime('now')
\* of SQLite gives the whole second
PartsPerSecond == 2

sqlite_now(t) == (t \div PartsPerSecond) * PartsPerSecond

\* a row of knowledge_graphs or memory_streams
NodeRow(id, p, n) == [id |-> id, project_id |-> p, node_id |-> n]

ObsRow(id, ms, content, importance, created, accessed) ==
    [id |-> id, memory_stream_id |-> ms, content |-> content,
     importance |-> importance, created_at |-> created,
     accessed_at |-> accessed]

VecRow(id, embedding) == [observation_id |-> id, embedding |-> embedding]

UniqueFailed == "IntegrityError: UNIQUE constraint failed"

ForeignKeyFailed == "IntegrityError: FOREIGN KEY constraint failed"

VectorFailed == "OperationalError"

\* ---- kg_ensure and ms_ensure, statement by statement; t is the table
\* ("kgs" for knowledge_graphs, "mss" for memory_streams)
NodeRowsOf(S, t, p, n) ==
    SelectSeq(S[t], LAMBDA r : r.project_id = p /\ r.node_id = n)

\* SELECT id FROM t WHERE project_id = ? AND node_id = ?
ensure_select(S, t, p, n) ==
    IF NodeRowsOf(S, t, p, n) = << >> THEN NoId ELSE NodeRowsOf(S, t, p, n)[1].id

\* INSERT INTO t (project_id, node_id) under UNIQUE(project_id, node_id) and
\* REFERENCES projects(id)
ensure_insert(S, t, p, n) ==
    IF NodeRowsOf(S, t, p, n) # << >>
    THEN DbRet(S, UniqueFailed, NoId)
    ELSE IF p \notin S.projects
    THEN DbRet(S, ForeignKeyFailed, NoId)
    ELSE LET id == S.seq[t] + 1
         IN DbRet([S EXCEPT ![t] = Append(@, NodeRow(id, p, n)),
                            !.seq[t] = id],
                  "ok", id)

\* ---- ms_add_observation
insert_observation(S, ms_id, content, importance, created, accessed) ==
    IF \A r \in Range(S.mss) : r.id # ms_id
    THEN DbRet(S, ForeignKeyFailed, NoId)
    ELSE LET id == S.seq.obs + 1
         IN DbRet([S EXCEPT !.obs = Append(@, ObsRow(id, ms_id, content,
                                                     importance, created,
                                                     accessed)),
                            !.seq.obs = id],
                  "ok", id)

insert_vector(S, obs_id, embedding) ==
    [S EXCEPT !.vec = Append(@, VecRow(obs_id, embedding))]

\* ---- delete_project
IdsOf(S, t, p) == { r.id : r \in { x \in Range(S[t]) : x.project_id = p } }

ObsIdsOf(S, p) ==
    { o.id : o \in { x \in Range(S.obs) :
                        x.memory_stream_id \in IdsOf(S, "mss", p) } }

\* DELETE FROM observation_vectors WHERE observation_id IN (the observations
\* of the project's memory streams)
delete_vectors(S, p) ==
    [S EXCEPT !.vec = SelectSeq(@, LAMBDA v :
                                      v.observation_id \notin ObsIdsOf(S, p))]

\* session.delete(project), session.commit()
delete_project_row(S, p) == [S EXCEPT !.projects = @ \ {p}]

\* DELETE FROM knowledge_graphs WHERE project_id = ?, with ON DELETE CASCADE
\* to kg_entities and kg_relationships
delete_knowledge_graphs(S, p) ==
    LET kgs == IdsOf(S, "kgs", p)
        ents == { e.id : e \in { x \in Range(S.ent) :
                                    x.knowledge_graph_id \in kgs } }
    IN [S EXCEPT
          !.kgs = SelectSeq(@, LAMBDA r : r.project_id # p),
          !.ent = SelectSeq(@, LAMBDA r : r.knowledge_graph_id \notin kgs),
          !.rel = SelectSeq(@, LAMBDA r : /\ r.knowledge_graph_id \notin kgs
                                          /\ r.from_entity_id \notin ents
                                          /\ r.to_entity_id \notin ents)]

\* DELETE FROM memory_streams WHERE project_id = ?, with ON DELETE CASCADE
\* to observations
delete_memory_streams(S, p) ==
    LET mss == IdsOf(S, "mss", p)
    IN [S EXCEPT
          !.mss = SelectSeq(@, LAMBDA r : r.project_id # p),
          !.obs = SelectSeq(@, LAMBDA r : r.memory_stream_id \notin mss)]

\* get_project, project_exists
project_exists(S, p) == p \in S.projects

\* kg_load_full(project_id, node_id) gives None without a knowledge_graphs row
kg_loaded(S, p, n) == NodeRowsOf(S, "kgs", p, n) # << >>

\* ---- ms_search and ms_update_accessed
NoDate == -1

Distance(e, q) == IF e >= q THEN e - q ELSE q - e

EmbeddingOf(S, id) ==
    (CHOOSE v \in Range(S.vec) : v.observation_id = id).embedding

\* observations JOIN observation_vectors WHERE memory_stream_id = ? AND
\* created_at >= ? AND created_at <= ?
Matching(S, ms_id, from_date, to_date) ==
    SelectSeq(S.obs, LAMBDA o :
        /\ o.memory_stream_id = ms_id
        /\ \E v \in Range(S.vec) : v.observation_id = o.id
        /\ from_date = NoDate \/ o.created_at >= from_date
        /\ to_date = NoDate \/ o.created_at <= to_date)

\* ORDER BY v.distance LIMIT k
RECURSIVE Nearest(_, _, _, _)
Nearest(S, rows, q, k) ==
    IF k = 0 \/ rows = << >>
    THEN << >>
    ELSE LET d(i) == Distance(EmbeddingOf(S, rows[i].id), q)
             i == CHOOSE x \in DOMAIN rows :
                     \A y \in DOMAIN rows : d(x) < d(y) \/ (d(x) = d(y) /\ x <= y)
         IN << rows[i] >>
            \o Nearest(S, SubSeq(rows, 1, i - 1) \o SubSeq(rows, i + 1, Len(rows)),
                       q, k - 1)

ms_search(S, ms_id, query_embedding, k, from_date, to_date) ==
    Nearest(S, Matching(S, ms_id, from_date, to_date), query_embedding, k)

\* UPDATE observations SET accessed_at = datetime('now') WHERE id IN (...)
ms_update_accessed(S, observation_ids, t) ==
    [S EXCEPT !.obs = [i \in DOMAIN @ |->
                          IF @[i].id \in observation_ids
                          THEN [@[i] EXCEPT !.accessed_at = sqlite_now(t)]
                          ELSE @[i]]]

\* ---- the calls, one action per statement
\* the rows that earlier sessions left: two saved projects, each with a
\* knowledge graph K and a memory stream M that holds one observation
PriorTables ==
    [projects |-> ProjectIds,
     kgs |-> << NodeRow(1, "p", "K"), NodeRow(2, "q", "K") >>,
     mss |-> << NodeRow(1, "p", "M"), NodeRow(2, "q", "M") >>,
     ent |-> << EntRow(1, 1, "a", json_dumps(EntityProps("a", "x"))),
                EntRow(2, 1, "b", json_dumps(EntityProps("b", "x"))),
                EntRow(3, 2, "a", json_dumps(EntityProps("a", "x"))) >>,
     rel |-> << RelRow(1, 1, 1, 2, "r", json_dumps(EmptyMap)) >>,
     obs |-> << ObsRow(1, 1, "hello", 0, 0, 0), ObsRow(2, 2, "hello", 0, 0, 0) >>,
     vec |-> << VecRow(1, 0), VecRow(2, 0) >>,
     seq |-> [kgs |-> 2, mss |-> 2, ent |-> 3, rel |-> 1, obs |-> 2]]

PriorStore == disk = PriorTables /\ conn = PriorTables /\ NoCalls

\* what a call returned: the call, what it was about, and the id, the rows
\* or the name of the exception that came back
Ret(op, key, res) == [op |-> op, key |-> key, res |-> res]

PairKey(p, n) == [p |-> p, n |-> n, ms_id |-> NoId]

ProjectKey(p) == [p |-> p, n |-> None, ms_id |-> NoId]

StreamKey(ms_id) == [p |-> None, n |-> None, ms_id |-> ms_id]

GaveId(id) == [id |-> id, err |-> None, ids |-> << >>]

GaveRows(ids) == [id |-> NoId, err |-> None, ids |-> ids]

Failed(e) == [id |-> NoId, err |-> e, ids |-> << >>]

StoreQuiet ==
    UNCHANGED << clock, deploy_count, is_deployed, current_agent_graph,
                 agents, knowledge_graphs, wait_and_combine_states,
                 message_buffers, tasks, taskobj, sched, procs, walk_log,
                 sent, exec_count, last_input, cb_count, design, hist,
                 tstack, memory_streams, tlog, llm_calls, kgv,
                 execution_graph >>

\* caller c starts a call
Begins(c) ==
    /\ co[c] = IdleCall
    /\ calls < MaxCalls - 1
    /\ calls' = calls + 1
    /\ UNCHANGED wall
    /\ StoreQuiet

\* caller c goes on in its call
Resumes(c, op, pc) ==
    /\ co[c].op = op
    /\ co[c].pc = pc
    /\ UNCHANGED << calls, wall >>
    /\ StoreQuiet

Suspends(c, call) == co' = [co EXCEPT ![c] = call] /\ UNCHANGED rets

Returns(c, r) == co' = [co EXCEPT ![c] = IdleCall] /\ rets' = rets \cup {r}

\* await self._conn.commit()
Commits == disk' = conn /\ UNCHANGED conn

\* the names of the two ensure methods
EnsureOp(t) == IF t = "kgs" THEN "kg_ensure" ELSE "ms_ensure"

EnsureTables == {"kgs", "mss"}

EnsureSelect(c, t, p, n) ==
    /\ Begins(c)
    /\ UNCHANGED << disk, conn >>
    /\ IF ensure_select(conn, t, p, n) # NoId
       THEN Returns(c, Ret(EnsureOp(t), PairKey(p, n),
                            GaveId(ensure_select(conn, t, p, n))))
       ELSE Suspends(c, [op |-> EnsureOp(t), pc |-> "insert", t |-> t,
                         p |-> p, n |-> n])

EnsureInsert(c) ==
    \E t \in EnsureTables :
        /\ Resumes(c, EnsureOp(t), "insert")
        /\ LET r == ensure_insert(conn, t, co[c].p, co[c].n)
           IN /\ conn' = r.db
              /\ UNCHANGED disk
              /\ IF r.res = "ok"
                 THEN Suspends(c, [co[c] EXCEPT !.pc = "commit"]
                                     @@ [lastrowid |-> r.id])
                 ELSE Returns(c, Ret(EnsureOp(t), PairKey(co[c].p, co[c].n),
                                 Failed(r.res)))

EnsureCommit(c) ==
    \E t \in EnsureTables :
        /\ Resumes(c, EnsureOp(t), "commit")
        /\ Commits
        /\ Returns(c, Ret(EnsureOp(t), PairKey(co[c].p, co[c].n),
                       GaveId(co[c].lastrowid)))

\* MemoryStream.add: the observation is made now, then ms_add_observation;
\* fails tells whether the INSERT into observation_vectors raises
AddObservationInsert(c, ms_id, fails) ==
    /\ Begins(c)
    /\ UNCHANGED disk
    /\ LET r == insert_observation(conn, ms_id, "hello", 0, wall, wall)
       IN /\ conn' = r.db
          /\ IF r.res = "ok"
             THEN Suspends(c, [op |-> "ms_add_observation", pc |-> "vector",
                               ms_id |-> ms_id, obs_id |-> r.id,
                               fails |-> fails])
             ELSE Returns(c, Ret("ms_add_observation", StreamKey(ms_id),
                                 Failed(r.res)))

AddObservationVector(c) ==
    /\ Resumes(c, "ms_add_observation", "vector")
    /\ UNCHANGED disk
    /\ IF co[c].fails
       THEN /\ UNCHANGED conn
            /\ Returns(c, Ret("ms_add_observation", StreamKey(co[c].ms_id),
                            Failed(VectorFailed)))
       ELSE /\ conn' = insert_vector(conn, co[c].obs_id, 0)
            /\ Suspends(c, [co[c] EXCEPT !.pc = "commit"])

AddObservationCommit(c) ==
    /\ Resumes(c, "ms_add_observation", "commit")
    /\ Commits
    /\ Returns(c, Ret("ms_add_observation", StreamKey(co[c].ms_id),
                   GaveId(co[c].obs_id)))

DeleteVectors(c, p) ==
    /\ Begins(c)
    /\ conn' = delete_vectors(conn, p)
    /\ UNCHANGED disk
    /\ Suspends(c, [op |-> "delete_project", pc |-> "commit", p |-> p])

DeleteVectorsCommit(c) ==
    /\ Resumes(c, "delete_project", "commit")
    /\ Commits
    /\ Suspends(c, [co[c] EXCEPT !.pc = "session"])

\* the session has its own connection: it writes the file once the shared
\* connection holds no uncommitted write
DeleteSession(c) ==
    /\ Resumes(c, "delete_project", "session")
    /\ conn = disk
    /\ disk' = delete_project_row(disk, co[c].p)
    /\ conn' = delete_project_row(conn, co[c].p)
    /\ Suspends(c, [co[c] EXCEPT !.pc = "kgs"])

DeleteKnowledgeGraphs(c) ==
    /\ Resumes(c, "delete_project", "kgs")
    /\ conn' = delete_knowledge_graphs(conn, co[c].p)
    /\ UNCHANGED disk
    /\ Suspends(c, [co[c] EXCEPT !.pc = "mss"])

DeleteMemoryStreams(c) ==
    /\ Resumes(c, "delete_project", "mss")
    /\ conn' = delete_memory_streams(conn, co[c].p)
    /\ UNCHANGED disk
    /\ Suspends(c, [co[c] EXCEPT !.pc = "done"])

DeleteCommit(c) ==
    /\ Resumes(c, "delete_project", "done")
    /\ Commits
    /\ Returns(c, Ret("delete_project", ProjectKey(co[c].p), GaveId(NoId)))

\* MemoryStream.retrieve: ms_search, then ms_update_accessed for the rows
\* found
Search(c, ms_id, k, from_date, to_date) ==
    /\ Begins(c)
    /\ UNCHANGED << disk, conn >>
    /\ LET ids == [i \in DOMAIN ms_search(conn, ms_id, 0, k, from_date, to_date)
                     |-> ms_search(conn, ms_id, 0, k, from_date, to_date)[i].id]
       IN IF ids = << >>
          THEN Returns(c, Ret("retrieve", StreamKey(ms_id), GaveRows(ids)))
          ELSE Suspends(c, [op |-> "retrieve", pc |-> "update",
                            ms_id |-> ms_id, k |-> k, from_date |-> from_date,
                            to_date |-> to_date, ids |-> ids, called |-> wall])

UpdateAccessed(c) ==
    /\ Resumes(c, "retrieve", "update")
    /\ conn' = ms_update_accessed(conn, Range(co[c].ids), wall)
    /\ UNCHANGED disk
    /\ Suspends(c, [co[c] EXCEPT !.pc = "commit"])

UpdateCommit(c) ==
    /\ Resumes(c, "retrieve", "commit")
    /\ Commits
    /\ Returns(c, Ret("retrieve", StreamKey(co[c].ms_id), GaveRows(co[c].ids)))

\* time passes
WallEnd == MaxClock

WallTick ==
    /\ wall < WallEnd
    /\ wall' = wall + 1
    /\ UNCHANGED << disk, conn, co, rets, calls >>
    /\ StoreQuiet

\* the inputs of the calls
EnsurePairs ==
    { << "kgs", "p", "K" >>, << "kgs", "p", "K2" >>, << "kgs", "q", "K2" >>,
      << "mss", "p", "M2" >> }

StreamRowIds == {1, 2}

SearchSizes == {1}

DateBounds == { << NoDate, NoDate >>, << 1, NoDate >>, << NoDate, 0 >> }

InitStore == InitRuntime /\ InitTurns /\ NoKnowledge /\ PriorStore /\ NoBuild

NextStore ==
    \/ WallTick
    \/ \E c \in Callers : \E e \in EnsurePairs :
          EnsureSelect(c, e[1], e[2], e[3])
    \/ \E c \in Callers : EnsureInsert(c)
    \/ \E c \in Callers : EnsureCommit(c)
    \/ \E c \in Callers : \E ms_id \in StreamRowIds : \E fails \in BOOLEAN :
          AddObservationInsert(c, ms_id, fails)
    \/ \E c \in Callers : AddObservationVector(c)
    \/ \E c \in Callers : AddObservationCommit(c)
    \/ \E c \in Callers : \E p \in ProjectIds : DeleteVectors(c, p)
    \/ \E c \in Callers : DeleteVectorsCommit(c)
    \/ \E c \in Callers : DeleteSession(c)
    \/ \E c \in Callers : DeleteKnowledgeGraphs(c)
    \/ \E c \in Callers : DeleteMemoryStreams(c)
    \/ \E c \in Callers : DeleteCommit(c)
    \/ \E c \in Callers : \E ms_id \in StreamRowIds : \E k \in SearchSizes :
          \E b \in DateBounds : Search(c, ms_id, k, b[1], b[2])
    \/ \E c \in Callers : UpdateAccessed(c)
    \/ \E c \in Callers : UpdateCommit(c)

SpecStore == InitStore /\ [][NextStore]_vars

\* ------------------------------------------------ reading the walk logs
\* the process p took the step: its walk went on or a new walk started
Stepped(p) == walk_log'[p] # walk_log[p] \/ procs'[p] # procs[p]

\* the number of entries of the next log that were there before the step
OldLen(p) == IF procs[p].pc = "idle" THEN 0 ELSE Len(walk_log[p])

\* the position in log of the emission that the visit at position q serves
LastEmit(log, q) ==
    LET c == { r \in 1 .. (q - 1) :
                 log[r].kind = "emit" /\ log[r].src = log[q].src }
    IN IF c = {} THEN 0 ELSE CHOOSE r \in c : \A x \in c : x <= r

\* the visits made for the emission at position i of log
Visits(log, i) ==
    { j \in DOMAIN log : j > i /\ log[j].kind # "emit"
                             /\ LastEmit(log, j) = i }

\* the message_out edges of node x in design g, in declaration order
MessageOutEdges(g, x) ==
    SelectSeq(design[g].edges,
              LAMBDA e : e.source_node = x /\ e.source_port = "message_out")

\* the only entry after position base of log that has buffer b as target
SoleTouch(log, base, i) ==
    /\ i > base
    /\ \A j \in DOMAIN log : j > base /\ j # i => log[j].tgt # log[i].tgt

S2Fired ==
    /\ sent = Len(S2Contents)
    /\ S2Task \in DOMAIN taskobj
    /\ taskobj[S2Task].run_count >= 1

S2UserMessages == [k \in DOMAIN S2Contents |-> Message("User", S2Contents[k])]

C5_FanOutDepthFirst ==
    \A p \in Procs : procs[p].pc = "idle" =>
        LET log == walk_log[p]
        IN \A i \in DOMAIN log : log[i].kind = "emit" =>
              LET succ == MessageOutEdges(log[i].g, log[i].src)
                  L == log[i].msgs
                  vis == Visits(log, i)
              IN /\ \A k \in DOMAIN succ :
                       IF GetNode(log[i].g, succ[k].target_node).type
                             = "text_output"
                       THEN \A n \in DOMAIN L : \E j \in vis :
                               /\ log[j].tgt = succ[k].target_node
                               /\ log[j].msgs = << L[n] >>
                       ELSE \E j \in vis :
                               /\ log[j].tgt = succ[k].target_node
                               /\ log[j].msgs = L
                 /\ \A j1, j2 \in vis : j1 < j2 => log[j1].e <= log[j2].e
                 /\ \A j2 \in vis : \A r \in (i + 1) .. (j2 - 1) :
                       log[r].kind = "emit" =>
                          \A q \in Visits(log, r) : q < j2

\* the part of C5 that does not depend on the walk reaching its end: the
\* order of the visits and their nesting
C5_OrderAndNesting ==
    \A p \in Procs :
        LET log == walk_log[p]
        IN \A i \in DOMAIN log : log[i].kind = "emit" =>
              LET vis == Visits(log, i)
              IN /\ \A j1, j2 \in vis : j1 < j2 => log[j1].e <= log[j2].e
                 /\ \A j2 \in vis : \A r \in (i + 1) .. (j2 - 1) :
                       log[r].kind = "emit" =>
                          \A q \in Visits(log, r) : q < j2

C8_UndeployWaitsForTurn ==
    [][(is_deployed /\ (~is_deployed' \/ deploy_count' # deploy_count)) =>
          \A p \in Procs : procs[p].pc # "turn"]_vars

\* C9: deploy is atomic: a runtime that is not deployed holds no graph, no
\* agents, no resource handles, no buffers and no scheduler tasks, as if
\* deploy had never been called.
C9_DeployAtomic ==
    ~is_deployed =>
        /\ current_agent_graph = NoGraph
        /\ DOMAIN agents = {}
        /\ DOMAIN knowledge_graphs = {}
        /\ DOMAIN message_buffers = {}
        /\ DOMAIN wait_and_combine_states = {}
        /\ tasks = << >>

\* C10: after any sequence of deploy and undeploy calls the runtime holds
\* the agents, buffers and scheduler tasks of one deployment at most, the
\* one of the most recent deploy call.
C10_SingleDeployment ==
    /\ \A a \in DOMAIN agents : agents[a] = deploy_count
    /\ \A k \in Range(tasks) : k.dep = deploy_count
    /\ \A b \in DOMAIN message_buffers :
          /\ current_agent_graph # NoGraph
          /\ GetNode(current_agent_graph, b).type = "message_buffer"

\* the runtime holds nothing of a deployment: never deployed, or undeployed
Undeployed == ~is_deployed /\ current_agent_graph = NoGraph

\* the ids of the nodes of a type in a design
IdsOfType(g, t) == { n.id : n \in Range(NodesOfType(g, t)) }

C12_DesignReadOnly ==
    [][(is_deployed /\ is_deployed' /\ deploy_count' = deploy_count) =>
          design'[current_agent_graph] = design[current_agent_graph]]_vars

\* ---- the scheduler's claims, read off the event history of each task
Last(h) == h[Len(h)]

\* a call that returned: the loop counts it as a run
Counted(e) == e.ev \in {"ok", "pending"}

IsOnce(id) == hist[id] # << >> /\ hist[id][1].ev = "once"

IsInterval(id) ==
    hist[id] # << >> /\ hist[id][1].ev \in {"interval", "interval_now"}

\* the position of task id in the table, 0 when it is not there
PosOf(id) ==
    IF \E i \in DOMAIN tasks : tasks[i].id = id
    THEN CHOOSE i \in DOMAIN tasks : tasks[i].id = id ELSE 0

\* the loop is at a task of its snapshot and moves on in this step
VisitsTask(id) ==
    /\ sched.pc = "scan"
    /\ sched.i <= Len(sched.snap)
    /\ sched.snap[sched.i].id = id
    /\ sched' # sched

C14_IntervalTiming ==
    /\ [](\A id \in PlainIds :
            IsInterval(id) =>
                LET h == hist[id]
                IN /\ h[1].ev = "interval" =>
                        \A i \in 2 .. Len(h) : h[i].now >= h[1].now + h[1].arg
                   /\ \A i, j \in 2 .. Len(h) :
                        (i < j /\ Counted(h[i]) /\ Counted(h[j])) =>
                            h[j].now - h[i].now >= h[1].arg)
    /\ [][\A id \in PlainIds :
            (/\ VisitsTask(id)
             /\ IsInterval(id) /\ hist[id][1].ev = "interval_now"
             /\ Len(hist[id]) = 1
             /\ taskobj[sched.snap[sched.i]].enabled)
            => Len(hist'[id]) = 2]_vars

\* a task seeded with its creation time has run exactly one interval after
\* it, and a task started immediately has run twice
C14_Witness ==
    \E a, b \in PlainIds :
        /\ IsInterval(a) /\ hist[a][1].ev = "interval"
        /\ Len(hist[a]) >= 2
        /\ hist[a][2].now = hist[a][1].now + hist[a][1].arg
        /\ IsInterval(b) /\ hist[b][1].ev = "interval_now"
        /\ Cardinality({ i \in 2 .. Len(hist[b]) : Counted(hist[b][i]) }) >= 2

\* C15: a task is counted as run only when the work of its callback has
\* finished: no run is counted for a call that returned a pending async
\* value.
C15_CountedRunFinished ==
    \A id \in PlainIds :
        PosOf(id) # 0 =>
            taskobj[tasks[PosOf(id)]].run_count <=
                Cardinality({ i \in DOMAIN hist[id] : hist[id][i].ev = "ok" })

\* C16: a callback that raises does not end the loop: run_count, last_run
\* and enabled of the task stay as they were and the loop goes on to the
\* next task of the snapshot; every due task that the loop reaches is
\* called, also after an earlier task of the tick raised; an interval task
\* whose last call raised stays due at every later tick while it is enabled.
C16_RaiseIsCaught ==
    /\ [][\A id \in PlainIds :
            /\ (Len(hist'[id]) = Len(hist[id]) + 1
                    /\ Last(hist'[id]).ev = "raise") =>
                  /\ VisitsTask(id)
                  /\ taskobj'[sched.snap[sched.i]] = taskobj[sched.snap[sched.i]]
                  /\ sched' = [sched EXCEPT !.i = @ + 1]
            /\ (VisitsTask(id)
                    /\ should_run(taskobj[sched.snap[sched.i]], sched.now)) =>
                  Len(hist'[id]) = Len(hist[id]) + 1]_vars
    /\ [](\A id \in PlainIds :
            (/\ IsInterval(id) /\ Len(hist[id]) >= 2
             /\ Last(hist[id]).ev = "raise"
             /\ PosOf(id) # 0
             /\ taskobj[tasks[PosOf(id)]].enabled) =>
                \A n \in Last(hist[id]).now .. SchedHorizon :
                    should_run(taskobj[tasks[PosOf(id)]], n))

\* the callback of one task raised and a later task of the same snapshot
\* was called in the same tick; the interval task that raised has been
\* called again at a later tick
C16_Witness ==
    \E a, b \in PlainIds :
        /\ PosOf(a) # 0 /\ PosOf(b) > PosOf(a)
        /\ IsInterval(a) /\ Len(hist[a]) >= 3 /\ Len(hist[b]) >= 2
        /\ hist[a][2].ev = "raise"
        /\ hist[a][3].now > hist[a][2].now
        /\ \E i \in 2 .. Len(hist[b]) : hist[b][i].now = hist[a][2].now

\* ---- entry and exit claims, read off the log of the caller's last walk
\* the entry call of caller p has returned
Returned(p) ==
    /\ procs[p].pc = "idle" /\ ~procs[p].err
    /\ walk_log[p] # << >>
    /\ current_agent_graph # NoGraph

\* the messages that agent a emitted in a walk
RECURSIVE EmittedBy(_, _)
EmittedBy(log, a) ==
    IF log = << >> THEN 0
    ELSE (IF Head(log).kind = "emit" /\ Head(log).src = a
          THEN Len(Head(log).msgs) ELSE 0) + EmittedBy(Tail(log), a)

\* the calls of on_agent_graph_message with source a in a walk
ExitCalls(log, a) ==
    Cardinality({ i \in DOMAIN log : log[i].kind = "exit" /\ log[i].src = a })

\* agent a has an edge to a text output
IsExit(g, a) ==
    \E e \in Range(MessageOutEdges(g, a)) :
        GetNode(g, e.target_node).type = "text_output"

\* C17: the user callback is called once for every message that an exit
\* agent returned, with the agent as source, also when the agent has several
\* text output successors, and never for an agent without an edge to a text
\* output.
C17_ExitOncePerMessage ==
    \A p \in Users :
        Returned(p) =>
            \A a \in AgentIds :
                ExitCalls(walk_log[p], a) =
                    IF IsExit(current_agent_graph, a)
                    THEN EmittedBy(walk_log[p], a) ELSE 0

\* the turns that the entry call started itself
IsDirect(g, en) ==
    en.kind = "exec"
        /\ (en.src = None
                \/ GetNode(g, en.src).type \in {"text_input", "voice_input"})

\* the responses a walk is to return: one entry for every turn the entry
\* call started itself that returned a non-empty reply, in the order of the
\* turns
RECURSIVE Replies(_, _, _)
Replies(log, g, k) ==
    IF k >= Len(log) THEN << >>
    ELSE (IF IsDirect(g, log[k]) /\ log[k + 1].kind = "emit"
                /\ log[k + 1].src = log[k].tgt
          THEN << [agent_id |-> log[k].tgt,
                   response |-> log[k + 1].msgs[1].content] >>
          ELSE << >>) \o Replies(log, g, k + 1)

\* C18: the entry call returns one entry (agent id, reply content) for
\* every agent it executed itself whose reply was not empty, in routing
\* order, and no entry for an agent that the walk reached downstream.
C18_ResponsesOfDirectTargets ==
    \A p \in Users :
        Returned(p) =>
            procs[p].responses = Replies(walk_log[p], current_agent_graph, 1)

\* a call has returned two responses and a downstream agent, which is not
\* among them, replied as well
C18_Witness ==
    \E p \in Users :
        /\ Returned(p)
        /\ Len(procs[p].responses) = 2
        /\ \E a \in AgentIds :
              /\ EmittedBy(walk_log[p], a) > 0
              /\ \A i \in DOMAIN procs[p].responses :
                    procs[p].responses[i].agent_id # a

\* the target of edge e received a list from source s in the walk
Delivered(log, s, e) ==
    \E i \in DOMAIN log :
        /\ log[i].kind \in {"exec", "buffer_in", "buffer_trigger", "wac"}
        /\ log[i].src = s
        /\ log[i].tgt = e.target_node

\* C19: a text entry call routes its list from every text input node of
\* the deployed graph: when the call has returned, every message successor
\* of every text input node has received the list from that node.
C19_EveryTextInputRoutes ==
    \A p \in Users :
        LET log == walk_log[p]
            g == current_agent_graph
        IN (Returned(p) /\ log[1].kind = "emit"
                /\ GetNode(g, log[1].src).type = "text_input") =>
            \A t \in IdsOfType(g, "text_input") :
                \A e \in Range(MessageOutEdges(g, t)) :
                    GetNode(g, e.target_node).type
                        \in {"agent", "message_buffer", "wait_and_combine"}
                    => Delivered(log, t, e)

\* C20: in a graph without a voice input node an entry call, voice or
\* text, has the effects and the return value of the text call: every such
\* call leaves the caller, the buffers, the wait-and-combine states and the
\* walk log as send_user_message leaves them.
C20_VoiceFallsBackToText ==
    [][\A p \in Users :
        (/\ sent' = sent + 1
         /\ procs[p].pc = "idle" /\ procs'[p] # procs[p]
         /\ current_agent_graph # NoGraph
         /\ NodesOfType(current_agent_graph, "voice_input") = << >>) =>
            LET m == EntryWalk("text_input", NextMessages)
            IN /\ procs'[p] = ProcAfter(m, agents)
               /\ walk_log'[p] = m.log
               /\ message_buffers' = m.bufs
               /\ wait_and_combine_states' = m.wac]_vars

\* --------------------------------------------------- reading the turn log
TurnIds == { tlog[i].tid : i \in DOMAIN tlog }

\* the events of kind ev of turn t
Ev(t, ev) == SelectSeq(tlog, LAMBDA e : e.tid = t /\ e.ev = ev)

Ended(t) == Ev(t, "end") # << >>

\* the turn returned and its adapter never raised
Succeeded(t) == Ended(t) /\ Ev(t, "error") = << >>

Stateful(t) == Ev(t, "begin")[1].ms # None

ItemsOf(obs) == [i \in DOMAIN obs |-> obs[i].item]

\* s is a sequence of rounds: a response, one result per tool call of the
\* response in call order, and so on up to a response without tool calls
RECURSIVE Rounds(_)
Rounds(s) ==
    /\ s # << >>
    /\ s[1].role = "assistant"
    /\ LET c == Len(s[1].tool_calls)
       IN IF c = 0 THEN Len(s) = 1
          ELSE /\ Len(s) > c + 1
               /\ \A k \in 1 .. c :
                     /\ s[1 + k].role = "tool"
                     /\ s[1 + k].tool_call_id = s[1].tool_calls[k].id
               /\ Rounds(SubSeq(s, c + 2, Len(s)))

\* items is what a successful turn on input leaves: the input messages,
\* then the rounds
IsTurnRecord(items, input) ==
    /\ Len(items) > Len(input)
    /\ \A k \in DOMAIN input : items[k] = UserMessage(input[k])
    /\ Rounds(SubSeq(items, Len(input) + 1, Len(items)))

\* what was appended to the stream of turn t between its begin and its end
During(t) ==
    LET b == Ev(t, "begin")[1]
        e == Ev(t, "end")[1]
    IN SubSeq(memory_streams[b.ms], b.at + 1, e.at)

\* C21 (as stated): for every successful turn of a stateful agent, the
\* observations appended to its memory stream during the turn are the input
\* messages, the response, then per round the tool results and the next
\* response, and nothing else.
C21_StreamDuringTurn ==
    \A t \in TurnIds :
        Succeeded(t) /\ Stateful(t)
            => IsTurnRecord(ItemsOf(During(t)), Ev(t, "begin")[1].arg)

\* C21 (amended): for every successful turn of a stateful agent, the
\* observations that the turn itself appends to its memory stream are, in
\* append order, the input messages, the response, then per round one
\* observation per tool result and the next response; all of them lie
\* between the begin and the end of the turn, where the turn of an agent
\* asked through a delegate tool and bound to the same stream adds its own.
C21_OwnObservations ==
    \A t \in TurnIds :
        Succeeded(t) /\ Stateful(t)
            => /\ IsTurnRecord(
                    ItemsOf(SelectSeq(memory_streams[Ev(t, "begin")[1].ms],
                                      LAMBDA o : o.tid = t)),
                    Ev(t, "begin")[1].arg)
               /\ SelectSeq(During(t), LAMBDA o : o.tid = t)
                    = SelectSeq(memory_streams[Ev(t, "begin")[1].ms],
                                LAMBDA o : o.tid = t)

\* a successful turn with tool results whose delegate tool ran the turn of
\* an agent bound to the same stream
C21_Witness ==
    \E t, u \in TurnIds :
        /\ Succeeded(t) /\ Stateful(t) /\ Succeeded(u) /\ Stateful(u)
        /\ Ev(u, "begin")[1].by = t
        /\ Ev(u, "begin")[1].ms = Ev(t, "begin")[1].ms
        /\ Len(Ev(t, "tool")) >= 2

\* the positions that the step added to the turn log
NewEvents == (Len(tlog) + 1) .. Len(tlog')

\* the adapter call at position i of the turn log raised
Raised(log, i) ==
    /\ log[i].ev = "llm"
    /\ (i = Len(log) \/ log[i + 1].ev # "response")

\* the caller's walk got the reply of the awaited turn in this step
Handed(p) ==
    /\ tstack[p] # << >>
    /\ Head(tstack[p]).pc = "done"
    /\ tstack'[p] = << >>

\* C22: when the adapter raises in an LLM call of a turn (the first or a
\* later one), ERROR_OCCURRED is emitted and execute returns [] without
\* raising; a turn run by a delegate tool hands the no-response string to
\* the asking agent and leaves the walk alone; for a turn awaited by the
\* runtime the walk goes on without raising, with nothing routed from the
\* agent, nothing delivered to the exit callback and no response listed.
C22_AdapterFailureEndsTurn ==
    [][\A p \in Users :
          /\ \A i \in NewEvents :
                Raised(tlog', i)
                   => /\ i + 2 <= Len(tlog')
                      /\ tlog'[i + 1].ev = "error"
                      /\ tlog'[i + 1].tid = tlog'[i].tid
                      /\ tlog'[i + 2].ev = "end"
                      /\ tlog'[i + 2].tid = tlog'[i].tid
                      /\ tlog'[i + 2].arg = << >>
                      /\ UNCHANGED << walk_log, procs >>
                      /\ IF tlog'[i].by = 0
                         THEN /\ Head(tstack'[p]).pc = "done"
                              /\ Head(tstack'[p]).ret = << >>
                         ELSE /\ i + 3 <= Len(tlog')
                              /\ tlog'[i + 3].ev = "tool"
                              /\ tlog'[i + 3].tid = tlog'[i].by
                              /\ tlog'[i + 3].arg.content = NoResponse
          /\ (Handed(p) /\ Ev(Head(tstack[p]).tid, "error") # << >>)
                => /\ ~procs'[p].err
                   /\ procs'[p].responses = procs[p].responses
                   /\ Len(walk_log'[p]) >= Len(walk_log[p])
                   /\ \A k \in (Len(walk_log[p]) + 1) .. Len(walk_log'[p]) :
                         walk_log'[p][k].src # Head(tstack[p]).agent]_vars

\* the adapter raised in the call that followed the tool results of a turn
\* awaited by the runtime, and the walk of the caller has finished
C22_Witness ==
    \E t \in TurnIds :
        /\ Ev(t, "error") # << >>
        /\ Ev(t, "tool") # << >>
        /\ Ev(t, "begin")[1].by = 0
        /\ Ended(t)
        /\ \A p \in Users : procs[p].pc = "idle" /\ ~procs[p].err

\* the position of the latest event of kind ev of turn t before position i
\* of the turn log, 0 when there is none
Before(i, t, ev) ==
    LET S == { j \in 1 .. (i - 1) : tlog[j].tid = t /\ tlog[j].ev = ev }
    IN IF S = {} THEN 0 ELSE CHOOSE j \in S : \A k \in S : k <= j

\* the context ends with response r and one result per tool call of r, in
\* call order and with the ids of the calls
EndsWithResults(ctx, r) ==
    LET n == Len(r.tool_calls)
    IN /\ n >= 1
       /\ Len(ctx) >= n + 1
       /\ ctx[Len(ctx) - n] = r
       /\ \A k \in 1 .. n :
             /\ ctx[Len(ctx) - n + k].role = "tool"
             /\ ctx[Len(ctx) - n + k].tool_call_id = r.tool_calls[k].id

\* C23: whenever the adapter is called again in a turn, the context ends
\* with the previous response and exactly one tool result per tool call of
\* that response, in call order, each with the id of its call - whether the
\* tool ran, was unknown, raised or had unparsable arguments; and a turn
\* returns only after an adapter call, never out of the tool loop.
C23_OneResultPerToolCall ==
    \A i \in DOMAIN tlog :
        /\ (tlog[i].ev = "llm" /\ Before(i, tlog[i].tid, "llm") # 0)
              => LET j == Before(i, tlog[i].tid, "response")
                 IN /\ j > Before(i, tlog[i].tid, "llm")
                    /\ EndsWithResults(tlog[i].ctx, tlog[j].arg)
        /\ tlog[i].ev = "end"
              => LET t == tlog[i].tid
                     l == Before(i, t, "llm")
                 IN /\ l # 0
                    /\ Before(i, t, "tool") < l

\* the adapter was called again after an unknown tool and a raising tool,
\* and after unparsable arguments and a delegate call
C23_Witness ==
    /\ \E i \in DOMAIN tlog :
          /\ tlog[i].ev = "llm"
          /\ Len(tlog[i].ctx) > 2
          /\ tlog[i].ctx[Len(tlog[i].ctx)].content = NotFound
          /\ tlog[i].ctx[Len(tlog[i].ctx) - 1].content = ToolFailed
    /\ \E i \in DOMAIN tlog :
          /\ tlog[i].ev = "llm"
          /\ Len(tlog[i].ctx) > 2
          /\ tlog[i].ctx[Len(tlog[i].ctx)].content = "re"
          /\ tlog[i].ctx[Len(tlog[i].ctx)].role = "tool"
          /\ tlog[i].ctx[Len(tlog[i].ctx) - 1].content = ToolFailed

\* the events of turn t, in order
EventsOf(t) == SelectSeq(tlog, LAMBDA e : e.tid = t)

\* the event y may follow the event x in a turn: Idle -> Thinking at the
\* first adapter call, Thinking -> Tool on a response with tool calls,
\* Tool -> Thinking at the next adapter call, Thinking -> Idle on a response
\* without tool calls or an adapter exception
MayFollow(x, y) ==
    CASE x.ev = "begin" -> y.ev = "llm"
      [] x.ev = "llm" -> y.ev \in {"response", "error"}
      [] x.ev = "response" ->
            IF x.arg.tool_calls = << >>
            THEN /\ y.ev = "end"
                 /\ y.arg = IF x.arg.content # ""
                            THEN << Message(GetNode(current_agent_graph,
                                                    x.agent).name,
                                            x.arg.content) >>
                            ELSE << >>
            ELSE y.ev = "tool"
      [] x.ev = "tool" -> y.ev \in {"tool", "llm"}
      [] x.ev = "error" -> y.ev = "end" /\ y.arg = << >>
      [] OTHER -> FALSE

TurnShape ==
    \A t \in TurnIds :
        LET E == EventsOf(t)
        IN /\ E[1].ev = "begin"
           /\ \A k \in 1 .. (Len(E) - 1) : MayFollow(E[k], E[k + 1])

\* the execute call awaited by caller p has not returned yet
InTurn(p) == tstack[p] # << >> /\ Head(tstack[p]).pc # "done"

\* C24: a turn follows Idle -> Thinking -> (Tool, Thinking)* -> Idle; it
\* ends exactly at a response without tool calls or at an adapter
\* exception, with the single message (agent name, content) when the
\* content is not empty and [] otherwise; and when the adapter comes to
\* return a response without tool calls, every execute call returns.
C24_TurnStateMachine ==
    /\ []TurnShape
    /\ \A p \in Users : InTurn(p) ~> ~InTurn(p)

\* a turn went through the tool loop and ended on a response with empty
\* content, another ended on a response with content
C24_Witness ==
    /\ \E t \in TurnIds :
          /\ Succeeded(t)
          /\ Len(Ev(t, "llm")) >= 2
          /\ Ev(t, "end")[1].arg = << >>
    /\ \E t \in TurnIds : Succeeded(t) /\ Ev(t, "end")[1].arg # << >>

\* the position of the begin event of turn t in the turn log
BeginAt(t) == CHOOSE i \in DOMAIN tlog : tlog[i].tid = t /\ tlog[i].ev = "begin"

\* the turns run by a delegate tool
Delegated == { t \in TurnIds : tlog[BeginAt(t)].by # 0 }

\* C25: a delegate tool call from A to B runs B's turn on the single
\* message (A's name, question) inside A's tool step; the turn has returned
\* before A's next adapter call; the tool result carries the id of the call
\* and the content of B's first reply, or the no-response string when B
\* returned []; B's reply goes to A only: nothing is routed from B and
\* nothing of B reaches the exit callback or the responses of the entry call.
C25_DelegateRunsInsideToolStep ==
    /\ \A t \in Delegated :
          LET i == BeginAt(t)
              u == tlog[i].by
              c == tlog[i - 1]
          IN /\ tlog[i].arg = << Message(GetNode(current_agent_graph,
                                                 tlog[BeginAt(u)].agent).name,
                                         Question) >>
             /\ c.tid = u
             /\ c.ev \in {"response", "tool"}
    /\ \A j \in DOMAIN tlog :
          /\ tlog[j].ev = "llm"
                => \A t \in Delegated :
                      (tlog[BeginAt(t)].by = tlog[j].tid /\ BeginAt(t) < j)
                          => \E k \in (BeginAt(t) + 1) .. (j - 1) :
                                tlog[k].tid = t /\ tlog[k].ev = "end"
          /\ (tlog[j].ev = "end" /\ tlog[j].by # 0)
                => /\ j < Len(tlog)
                   /\ tlog[j + 1].ev = "tool"
                   /\ tlog[j + 1].tid = tlog[j].by
                   /\ tlog[j + 1].arg.content =
                         IF tlog[j].arg # << >> THEN tlog[j].arg[1].content
                         ELSE NoResponse
                   /\ LET r == tlog[Before(BeginAt(tlog[j].tid), tlog[j].by,
                                           "response")].arg
                      IN \E k \in DOMAIN r.tool_calls :
                            /\ r.tool_calls[k].id = tlog[j + 1].arg.tool_call_id
                            /\ r.tool_calls[k].name[1] = "ask"
    /\ \A p \in Users :
          /\ \A k \in DOMAIN walk_log[p] :
                walk_log[p][k].src \notin { tlog[BeginAt(t)].agent : t \in Delegated }
          /\ \A k \in DOMAIN procs[p].responses :
                procs[p].responses[k].agent_id
                    \notin { tlog[BeginAt(t)].agent : t \in Delegated }
          /\ tstack[p] # << >> => tstack[p][Len(tstack[p])].by = 0

\* B answered A's question with a reply, A went on and returned, and the
\* walk of the caller has delivered A's reply
C25_Witness ==
    \E t \in Delegated :
        /\ Ended(t)
        /\ Ev(t, "end")[1].arg # << >>
        /\ Ended(tlog[BeginAt(t)].by)
        /\ \E p \in Users :
              /\ procs[p].pc = "idle"
              /\ \E k \in DOMAIN walk_log[p] : walk_log[p][k].kind = "exit"

\* the step ends a walk of caller p
WalkEnds(p) ==
    /\ procs'[p].pc = "idle"
    /\ procs[p].pc # "idle" \/ walk_log'[p] # walk_log[p]

\* the target of edge e is an agent whose executable exists
CanTake(g, e) ==
    LET tn == GetNode(g, e.target_node)
    IN tn.type = "agent" /\ tn.id \in DOMAIN agents

\* the target of edge e was visited for the emission at position i of log
Reached(log, i, e) ==
    \E j \in Visits(log, i) : log[j].tgt = e.target_node

\* every emission of log has reached every agent successor of its source
\* that has an executable
AllBranchesServed(log) ==
    \A i \in DOMAIN log :
        log[i].kind = "emit"
           => \A e \in Range(MessageOutEdges(current_agent_graph, log[i].src)) :
                 CanTake(current_agent_graph, e) => Reached(log, i, e)

\* C26: a failing branch does not abort the walk: a walk never ends with the
\* entry call raising, and when it ends every emission of it has reached
\* every successor of its source that has an executable - also when the
\* executable of a sibling is missing or the turn of a sibling raised.
C26_FailureStaysOnBranch ==
    [][\A p \in Users :
          WalkEnds(p) => /\ ~procs'[p].err
                         /\ AllBranchesServed(walk_log'[p])]_vars

\* ---------------------------------------------- the knowledge graph claims
\* the agents bound to the knowledge graph node of agent a
Peers(a) ==
    { b \in KgAgents : knowledge_graph_of(current_agent_graph, b)
                          = knowledge_graph_of(current_agent_graph, a) }

\* the call succeeded
Done == kg_out'.res = "ok"

\* a successful tool call of an agent is seen by the next query of every
\* agent bound to the same node
SeenByPeers ==
    \A a \in KgAgents : \A b \in Peers(a) :
        /\ \A n \in Names : \A t \in PropValues :
              /\ (AddEntity(a, n, t) /\ Done)
                    => get_entity(GraphOf(b)', n) = EntityProps(n, t)
              /\ (AddPropertyToEntity(a, n, t) /\ Done)
                    => get_entity(GraphOf(b)', n)["type"] = t
              /\ (RemoveEntityProperty(a, n) /\ Done)
                    => "type" \notin DOMAIN get_entity(GraphOf(b)', n)
              /\ (RemoveEntity(a, n) /\ Done)
                    => /\ get_entity(GraphOf(b)', n) = NoEntity
                       /\ \A x \in Names :
                             \A y \in get_neighbors(GraphOf(b)', x) :
                                y.entity # n
        /\ \A e1, e2 \in Names : \A rel \in RelTypes :
              LET hop == [entity |-> e2, relationship |-> rel]
              IN /\ (AddRelationship(a, e1, rel, e2) /\ Done)
                       => hop \in get_neighbors(GraphOf(b)', e1)
                 /\ (RemoveRelationship(a, e1, rel, e2) /\ Done)
                       => hop \notin get_neighbors(GraphOf(b)', e1)

\* kg_load_full gives, for every node, the graph that the agents query
LoadedIsQueried == \A k \in KgNodeIds : kg_load_full(Db, k) = kg_graph[k]

\* C27: after a successful knowledge graph mutation issued through an agent
\* the next query of every agent bound to the same knowledge graph node
\* sees the change, and kg_load_full returns the entities and relationships
\* of the in-memory copy that the agents query.
C27_MutationSeenAndStored == []LoadedIsQueried /\ [][SeenByPeers]_vars

\* no name has two rows in one knowledge graph
UniqueNames ==
    \A i, j \in DOMAIN kg_entities :
        (/\ kg_entities[i].knowledge_graph_id = kg_entities[j].knowledge_graph_id
         /\ kg_entities[i].entity_name = kg_entities[j].entity_name) => i = j

\* C28: adding an entity under a name that the knowledge graph already has
\* fails with the duplicate error and changes nothing - the entity keeps
\* its properties and relationships -, in storage and on the graph object;
\* a name that the graph does not have is added, whatever the other
\* knowledge graphs hold.
C28_DuplicateEntityRejected ==
    /\ UniqueNames
    /\ \A k \in KgNodeIds : \A n \in Names : \A t \in PropValues :
          LET r == kg_add_entity(Db, kg_ensure(k), n, EntityProps(n, t))
              m == add_entity(kg_graph[k], n, EntityProps(n, t))
          IN /\ IF EntRowsOf(Db, kg_ensure(k), n) # << >>
                THEN r.res = "IntegrityError" /\ r.db = Db
                ELSE /\ r.res = "ok"
                     /\ r.db.ent = Append(kg_entities,
                                          EntRow(r.id, kg_ensure(k), n,
                                                 json_dumps(EntityProps(n, t))))
                     /\ r.db.rel = kg_relationships
             /\ IF has_node(kg_graph[k], n)
                THEN m.res = EntityExists /\ m.graph = kg_graph[k]
                ELSE m.res = "ok" /\ get_entity(m.graph, n) = EntityProps(n, t)

\* a tool was refused the name a in one knowledge graph while the other
\* holds an entity of that name as well
C28_Witness ==
    /\ kg_out = KgCall("add_entity", EntityExists)
    /\ \A k \in KgNodeIds : EntRowsOf(Db, kg_ensure(k), "a") # << >>

\* C29: adding a relationship whose from entity or to entity is not in the
\* knowledge graph fails with the entity-not-found error and adds nothing,
\* in storage and on the graph object: no endpoint is created.
C29_MissingEndpointRejected ==
    \A k \in KgNodeIds : \A e1, e2 \in Names : \A rel \in RelTypes :
        LET r == kg_add_relationship(Db, kg_ensure(k), e1, rel, e2, EmptyMap)
            m == add_relationship(kg_graph[k], e1, rel, e2, EmptyMap)
        IN /\ (\/ EntRowsOf(Db, kg_ensure(k), e1) = << >>
               \/ EntRowsOf(Db, kg_ensure(k), e2) = << >>)
                 => r.res = "ValueError" /\ r.db = Db
           /\ (~has_node(kg_graph[k], e1) \/ ~has_node(kg_graph[k], e2))
                 => m.res = NoEntity /\ m.graph = kg_graph[k]

\* a tool was refused a relationship for a missing endpoint
C29_Witness ==
    /\ kg_out = KgCall("add_relationship", NoEntity)
    /\ \E k \in KgNodeIds : \E n \in Names : ~has_node(kg_graph[k], n)

\* the rows of the relationship from -rel-> to of knowledge graph kg_id
RelRowsOf(S, kg_id, from, rel, to) ==
    SelectSeq(S.rel, LAMBDA r : /\ r.knowledge_graph_id = kg_id
                                /\ r.rel_type = rel
                                /\ r.from_entity_id
                                      = kg_get_entity_id(S, kg_id, from)
                                /\ r.to_entity_id
                                      = kg_get_entity_id(S, kg_id, to))

\* C30: a knowledge graph holds at most one relationship per (from,
\* rel_type, to): storage never has two rows of one triple, and adding a
\* triple that exists is rejected as a duplicate and adds no row and no edge.
C30_OneRelationshipPerTriple ==
    \A k \in KgNodeIds : \A e1, e2 \in Names : \A rel \in RelTypes :
        LET rows == RelRowsOf(Db, kg_ensure(k), e1, rel, e2)
            r == kg_add_relationship(Db, kg_ensure(k), e1, rel, e2, EmptyMap)
            m == add_relationship(kg_graph[k], e1, rel, e2, EmptyMap)
        IN /\ Len(rows) <= 1
           /\ rows # << >> => r.res # "ok" /\ r.db = Db
           /\ IsRel(kg_graph[k], e1, rel, e2)
                 => m.res = RelationshipExists /\ m.graph = kg_graph[k]

\* the relationship rows at the entity row id
RowsAt(S, id) ==
    SelectSeq(S.rel, LAMBDA r : r.from_entity_id = id \/ r.to_entity_id = id)

\* the edges of G at the node n
EdgesAt(G, n) == { e \in DOMAIN G.edges : e[1] = n \/ e[2] = n }

\* both ends of every relationship row are entity rows of the row's
\* knowledge graph, and both ends of every edge are nodes of its graph
EndpointsExist ==
    /\ \A r \in Range(kg_relationships) :
          \A end \in {r.from_entity_id, r.to_entity_id} :
             \E e \in Range(kg_entities) :
                e.id = end /\ e.knowledge_graph_id = r.knowledge_graph_id
    /\ \A k \in KgNodeIds : \A e \in DOMAIN kg_graph[k].edges :
          has_node(kg_graph[k], e[1]) /\ has_node(kg_graph[k], e[2])

\* C31: after kg_remove_entity(E) the knowledge graph has no entity E and
\* no relationship from or to E - in the tables, in what kg_load_full gives
\* and on the graph object -, and in every reachable state the two ends of
\* each relationship are existing entities of the same knowledge graph.
C31_RemovedEntityLeavesNoRelationship ==
    /\ EndpointsExist
    /\ \A k \in KgNodeIds : \A n \in Names :
          LET id == kg_get_entity_id(Db, kg_ensure(k), n)
              r == kg_remove_entity(Db, kg_ensure(k), n)
              G == kg_load_full(r.db, k)
              m == remove_entity(kg_graph[k], n)
          IN /\ EntRowsOf(r.db, kg_ensure(k), n) = << >>
             /\ id # NoId => RowsAt(r.db, id) = << >>
             /\ ~has_node(G, n) /\ EdgesAt(G, n) = {}
             /\ ~has_node(m.graph, n) /\ EdgesAt(m.graph, n) = {}

\* a tool removed an entity of the first knowledge graph after
\* relationships had been stored, and no relationship is left
C31_Witness ==
    /\ kg_out = KgCall("remove_entity", "ok")
    /\ kg_seq.rel > 0
    /\ kg_relationships = << >>
    /\ \E n \in Names : EntRowsOf(Db, 1, n) = << >>

\* C38: two relationships of different rel_type on one ordered pair of
\* entities coexist: every stored relationship is reported by kg_load_full,
\* adding a second type on a pair keeps the first one in the tables and on
\* the graph object that the agents query, and removing one of the two
\* leaves the other in place.
C38_TypesCoexistOnPair ==
    \A k \in KgNodeIds : \A e1, e2 \in Names : \A r1, r2 \in RelTypes :
        LET kg_id == kg_ensure(k)
            G == kg_graph[k]
            add == add_relationship(G, e1, r2, e2, EmptyMap)
            rem == remove_relationship(G, e1, r2, e2)
            sadd == kg_add_relationship(Db, kg_id, e1, r2, e2, EmptyMap)
            srem == kg_remove_relationship(Db, kg_id, e1, r2, e2)
        IN /\ RelRowsOf(Db, kg_id, e1, r1, e2) # << >>
                 => IsRel(kg_load_full(Db, k), e1, r1, e2)
           /\ (r1 # r2 /\ RelRowsOf(Db, kg_id, e1, r1, e2) # << >>)
                 => /\ RelRowsOf(sadd.db, kg_id, e1, r1, e2) # << >>
                    /\ RelRowsOf(sadd.db, kg_id, e1, r2, e2) # << >>
                    /\ RelRowsOf(srem.db, kg_id, e1, r1, e2) # << >>
           /\ (r1 # r2 /\ IsRel(G, e1, r1, e2))
                 => /\ add.res = "ok"
                    /\ IsRel(add.graph, e1, r1, e2)
                    /\ IsRel(add.graph, e1, r2, e2)
                    /\ IsRel(rem.graph, e1, r1, e2)

\* ---------------------------------------------------- the storage claims
\* the kg_ensure and ms_ensure calls that came back
Ensured == { r \in rets : r.op \in {"kg_ensure", "ms_ensure"} }

\* C35: kg_ensure and ms_ensure are idempotent: every call for a pair
\* (project_id, node_id) of an existing project returns an id, the same id
\* for the same pair and different ids for different pairs, also when two
\* calls interleave at their await points, and no pair has two records.
C35_EnsureIsIdempotent ==
    /\ \A r \in Ensured : r.res.err # UniqueFailed
    /\ \A r1, r2 \in Ensured :
          (r1.op = r2.op /\ r1.res.err = None /\ r2.res.err = None)
             => (r1.key = r2.key <=> r1.res.id = r2.res.id)
    /\ \A t \in EnsureTables : \A p \in ProjectIds : \A n \in {"K", "K2", "M", "M2"} :
          /\ Len(NodeRowsOf(conn, t, p, n)) <= 1
          /\ Len(NodeRowsOf(disk, t, p, n)) <= 1

\* a delete_project call for the project of memory stream ms_id is running
Deleting(ms_id) ==
    \E c \in Callers : /\ co[c].op = "delete_project"
                       /\ ms_id \in IdsOf(disk, "mss", co[c].p)

\* C34: ms_add_observation is atomic: in every committed state of storage
\* each observation row (of a project that is not being deleted) has its
\* vector row, also when another call on the shared connection commits, or
\* the vector insert fails, between the two inserts.
C34_ObservationWithVector ==
    \A o \in Range(disk.obs) :
        ~Deleting(o.memory_stream_id)
           => \E v \in Range(disk.vec) : v.observation_id = o.id

\* what storage S holds of project p
ProjectData(S, p) ==
    LET kgs == IdsOf(S, "kgs", p)
        ents == { e.id : e \in { x \in Range(S.ent) :
                                    x.knowledge_graph_id \in kgs } }
    IN [project |-> project_exists(S, p),
        kgs |-> SelectSeq(S.kgs, LAMBDA r : r.project_id = p),
        mss |-> SelectSeq(S.mss, LAMBDA r : r.project_id = p),
        ent |-> SelectSeq(S.ent, LAMBDA r : r.knowledge_graph_id \in kgs),
        rel |-> SelectSeq(S.rel, LAMBDA r : r.knowledge_graph_id \in kgs),
        obs |-> SelectSeq(S.obs, LAMBDA r : r.id \in ObsIdsOf(S, p)),
        vec |-> SelectSeq(S.vec, LAMBDA r : r.observation_id \in ObsIdsOf(S, p))]

\* S holds nothing of project p, and no row whose owner is gone
GoneFrom(S, p) ==
    /\ ~project_exists(S, p)
    /\ \A n \in {"K", "K2"} : ~kg_loaded(S, p, n)
    /\ IdsOf(S, "kgs", p) = {} /\ IdsOf(S, "mss", p) = {}
    /\ \A e \in Range(S.ent) :
          \E k \in Range(S.kgs) : k.id = e.knowledge_graph_id
    /\ \A r \in Range(S.rel) :
          /\ \E k \in Range(S.kgs) : k.id = r.knowledge_graph_id
          /\ \E e \in Range(S.ent) : e.id = r.from_entity_id
          /\ \E e \in Range(S.ent) : e.id = r.to_entity_id
    /\ \A o \in Range(S.obs) :
          \E m \in Range(S.mss) : m.id = o.memory_stream_id
    /\ \A v \in Range(S.vec) :
          \E o \in Range(S.obs) : o.id = v.observation_id

\* caller c takes a step of delete_project(p), and the step that returns
DeleteStep(c, p) ==
    /\ co'[c] # co[c]
    /\ \/ co[c].op = "delete_project" /\ co[c].p = p
       \/ co'[c].op = "delete_project" /\ co'[c].p = p

DeleteEnds(c, p) ==
    /\ co[c].op = "delete_project" /\ co[c].pc = "done" /\ co[c].p = p
    /\ co'[c] = IdleCall

DeletedIsGone ==
    \A c \in Callers : \A p \in ProjectIds :
        /\ DeleteStep(c, p)
              => \A q \in ProjectIds \ {p} :
                    ProjectData(conn', q) = ProjectData(conn, q)
        /\ DeleteEnds(c, p) => GoneFrom(disk', p)

\* C32: when delete_project(p) returns, the project is gone (get_project
\* gives none, project_exists is false), kg_load_full(p, n) gives none for
\* every node, and storage holds no knowledge graph, entity, relationship,
\* memory stream, observation or observation vector that belonged to p; no
\* step of the call changes the data of another project.
C32_DeletedProjectLeavesNothing == [][DeletedIsGone]_vars

\* the row of observation id in S
ObsOf(S, id) == CHOOSE o \in Range(S.obs) : o.id = id

\* caller c starts a search that finds rows
SearchFinds(c) == co[c] = IdleCall /\ co'[c].op = "retrieve"

\* caller c runs the UPDATE of the rows that its search returned
AccessedUpdate(c) ==
    co[c].op = "retrieve" /\ co[c].pc = "update" /\ co'[c].pc = "commit"

SearchIsBoundedAndTouches ==
    \A c \in Callers :
        /\ SearchFinds(c)
              => /\ Len(co'[c].ids) <= co'[c].k
                 /\ \A id \in Range(co'[c].ids) :
                       /\ ObsOf(conn, id).memory_stream_id = co'[c].ms_id
                       /\ \/ co'[c].from_date = NoDate
                          \/ ObsOf(conn, id).created_at >= co'[c].from_date
                       /\ \/ co'[c].to_date = NoDate
                          \/ ObsOf(conn, id).created_at <= co'[c].to_date
        /\ AccessedUpdate(c)
              => /\ Len(conn'.obs) = Len(conn.obs)
                 /\ \A i \in DOMAIN conn.obs :
                       /\ [conn'.obs[i] EXCEPT !.accessed_at = 0]
                             = [conn.obs[i] EXCEPT !.accessed_at = 0]
                       /\ IF conn.obs[i].id \in Range(co[c].ids)
                          THEN conn'.obs[i].accessed_at >= co[c].called
                          ELSE conn'.obs[i].accessed_at = conn.obs[i].accessed_at

\* C33: a memory stream search for (ms_id, q, k) returns at most k
\* observations, all of stream ms_id and created within the date bounds
\* given; afterwards the accessed time of every returned observation is at
\* or after the time of the call, and created, content and importance of all
\* observations and accessed of the others are as before.
C33_SearchIsBoundedAndTouches == [][SearchIsBoundedAndTouches]_vars

\* ------------------------------------------------- execution graph builder
\* ExecutionGraphBuilder: the design-time graph d is turned into the
\* run-time structure; dictionaries are functions, lists are sequences.

\* AgentGraph.get_node on the design handed to the builder
get_node(d, id) ==
    LET hits == SelectSeq(d.nodes, LAMBDA n : n.id = id)
    IN IF hits = << >> THEN NoNode ELSE hits[1]

\* build, steps 2 to 4: the keys of the executables and of the buffer states
ids_of_type(d, t) == { n.id : n \in { x \in Range(d.nodes) : x.type = t } }

\* routing[source_id].append((target_type, target_id))
routing_append(routing, source_id, entry) ==
    IF source_id \in DOMAIN routing
    THEN [routing EXCEPT ![source_id] = Append(@, entry)]
    ELSE [s \in DOMAIN routing \cup {source_id} |->
            IF s = source_id THEN << entry >> ELSE routing[s]]

\* the target type the loop body gives to a node that exists
target_type_of(target, target_port, executables, buffers) ==
    IF target.id \in executables THEN "executable"
    ELSE IF target.id \in buffers
         THEN IF target_port = "trigger" THEN "message_buffer_trigger"
              ELSE "message_buffer_in"
    ELSE IF target.type = "text_output" THEN "exit"
    ELSE None

\* faulty variant of the loop body: the source port is not looked at
route_edge_any_port(routing, d, executables, buffers, edge) ==
    IF edge.edge_type # "message" THEN routing
    ELSE LET target == get_node(d, edge.target_node)
         IN IF target = NoNode THEN routing
            ELSE LET target_type ==
                       target_type_of(target, edge.target_port,
                                      executables, buffers)
                 IN IF target_type = None THEN routing
                    ELSE routing_append(routing, edge.source_node,
                                        << target_type, edge.target_node >>)

\* _build_routing_table, one pass of the loop over design.edges
route_edge(routing, d, executables, buffers, edge) ==
    IF edge.edge_type # "message" THEN routing
    ELSE IF edge.source_port # "message_out" THEN routing
    ELSE LET target == get_node(d, edge.target_node)
         IN IF target = NoNode THEN routing
            ELSE LET target_type ==
                       target_type_of(target, edge.target_port,
                                      executables, buffers)
                 IN IF target_type = None THEN routing
                    ELSE routing_append(routing, edge.source_node,
                                        << target_type, edge.target_node >>)

RECURSIVE routing_after(_, _, _, _)
\* the routing table after the first k edges of the design
routing_after(d, executables, buffers, k) ==
    IF k = 0 THEN ExecutionGraph.routing
    ELSE route_edge(routing_after(d, executables, buffers, k - 1),
                    d, executables, buffers, d.edges[k])

\* ExecutionGraphBuilder._build_routing_table
build_routing_table(d, executables, buffers) ==
    routing_after(d, executables, buffers, Len(d.edges))

\* ExecutionGraphBuilder._find_sources_of
find_sources_of(node_type, d) ==
    { e.source_node : e \in
        { x \in Range(d.edges) :
            /\ x.edge_type = "message"
            /\ \E n \in Range(d.nodes) :
                  n.type = node_type /\ x.target_node = n.id } }

\* ExecutionGraphBuilder.build, steps 2 to 4, 6 and 7
build(d) ==
    LET executables == ids_of_type(d, "agent")
        buffers == ids_of_type(d, "message_buffer")
    IN [executables |-> executables,
        message_buffers |-> buffers,
        routing |-> build_routing_table(d, executables, buffers),
        exit_ids |-> find_sources_of("text_output", d)]

\* the project whose design is built
BuildGraph == CHOOSE g \in GraphIds : Designs[g] = GraphFan

\* edges the editor adds before a build: a delegate edge, a message edge
\* from the ask port, message edges to a node that does not exist and to a
\* text input, a buffer and a text input wired to the text output, a second
\* agent wired to the text output, and an agent that triggers the buffer
BuildEdges ==
    { Edge("A2", "ask", "A1", "answer", "delegate"),
      Edge("A2", "ask", "O", "message_in", "message"),
      MsgEdge("A2", "Z", "message_in"),
      MsgEdge("A2", "T", "message_in"),
      MsgEdge("B", "O", "message_in"),
      MsgEdge("T", "O", "message_in"),
      MsgEdge("A2", "O", "message_in"),
      MsgEdge("A2", "B", "trigger") }

BuildEdgeSlots == 1 .. (Len(Designs[BuildGraph].edges) + MaxCalls)

\* deploy of the project: the execution graph is built from the design
Build(g) ==
    /\ execution_graph' = build(design[g])
    /\ UNCHANGED << clock, calls, deploy_count, is_deployed,
                    current_agent_graph, agents, knowledge_graphs,
                    wait_and_combine_states, message_buffers, tasks, taskobj,
                    sched, walk_log, sent, exec_count, last_input, cb_count,
                    hist, design, procs, tstack, memory_streams, tlog,
                    llm_calls, kgv, stv >>

NextBuild ==
    \/ \E e \in BuildEdges : AddEdge(BuildGraph, e)
    \/ \E i \in BuildEdgeSlots : RemoveEdge(BuildGraph, i)
    \/ Build(BuildGraph)

SpecBuild == Init /\ [][NextBuild]_vars

\* --------------------------------------------------- the builder claims
\* a step that leaves the design alone and ends with the execution graph
\* that build yields for it
Built ==
    /\ design' = design
    /\ execution_graph' = build(design[BuildGraph])

TargetOf(d, e) == get_node(d, e.target_node)

\* a message edge that leaves a message_out port for an agent, a port of a
\* buffer or a text output
Routable(d, e) ==
    /\ e.edge_type = "message"
    /\ e.source_port = "message_out"
    /\ TargetOf(d, e) # NoNode
    /\ \/ TargetOf(d, e).type \in {"agent", "text_output"}
       \/ /\ TargetOf(d, e).type = "message_buffer"
          /\ e.target_port \in {"message_in", "trigger"}

EntryOf(d, e) ==
    CASE TargetOf(d, e).type = "agent" -> << "executable", e.target_node >>
      [] TargetOf(d, e).type = "text_output" -> << "exit", e.target_node >>
      [] e.target_port = "trigger" ->
            << "message_buffer_trigger", e.target_node >>
      [] OTHER -> << "message_buffer_in", e.target_node >>

\* the entries of source s: one for each routable edge, in edge order
EntriesOf(d, s) ==
    LET es == SelectSeq(d.edges,
                  LAMBDA e : e.source_node = s /\ Routable(d, e))
    IN [i \in DOMAIN es |-> EntryOf(d, es[i])]

RoutingOf(routing, s) == IF s \in DOMAIN routing THEN routing[s] ELSE << >>

RoutingIsRoutableEdges ==
    Built =>
        \A s \in DOMAIN execution_graph'.routing
                 \cup { e.source_node : e \in Range(design[BuildGraph].edges) } :
            RoutingOf(execution_graph'.routing, s)
                = EntriesOf(design[BuildGraph], s)

ExitingAgents(d) ==
    { a \in ids_of_type(d, "agent") :
        \E e \in Range(d.edges) :
            /\ e.source_node = a
            /\ e.edge_type = "message"
            /\ e.source_port = "message_out"
            /\ TargetOf(d, e).type = "text_output" }

ExitSetIsExitingAgents ==
    Built => execution_graph'.exit_ids = ExitingAgents(design[BuildGraph])

\* C37: the exit set that build yields is the set of the agents that have a
\* message edge from their message_out port to a text output: every id in it
\* is such an agent, every such agent is in it, and no buffer, input event or
\* other node that is not an executable is in it.
C37_ExitSetIsExitingAgents == [][ExitSetIsExitingAgents]_vars

\* -------------------------------------------------- wait and combine
\* One deployment of GraphJoin, used by the user and by the scheduler.
JoinGraph == CHOOSE g \in DOMAIN Designs : Designs[g] = GraphJoin

NextJoin ==
    \/ DeployOnce(JoinGraph)
    \/ AdvanceClock
    \/ \E p \in Users : SendUserMessage(p)
    \/ \E p \in Procs : \E nonempty \in BOOLEAN : TurnReturn(p, nonempty)
    \/ TickBegin
    \/ TickVisit
    \/ TickSleep

SpecJoin == Init /\ [][NextJoin]_vars

\* the log entries that the walk of this step wrote: the whole log of an
\* entry call or a tick, the new part of the log of a resumed walk
StepLog ==
    IF sent' # sent THEN walk_log'[CHOOSE p \in Users : procs'[p] # procs[p]]
    ELSE IF cb_count' # cb_count THEN walk_log'["sched"]
    ELSE IF \E p \in Procs : procs[p].pc = "turn" /\ procs'[p] # procs[p]
    THEN LET p == CHOOSE q \in Procs :
                      procs[q].pc = "turn" /\ procs'[q] # procs[q]
         IN SubSeq(walk_log'[p], Len(walk_log[p]) + 1, Len(walk_log'[p]))
    ELSE << >>

\* the sources of the message edges into port message_in of node w
ExpectedSenders(g, w) ==
    { e.source_node : e \in
        { x \in Range(design[g].edges) :
            /\ x.edge_type = "message"
            /\ x.target_node = w
            /\ x.target_port = "message_in" } }

RECURSIVE ForwardVisits(_, _, _, _)
\* what the walk writes when node w forwards list msgs, from edge k on: one
\* line per message for a text output, one line with the whole list for an
\* agent, in whose turn the walk is suspended
ForwardVisits(g, w, msgs, k) ==
    IF k > Len(design[g].edges) THEN << >>
    ELSE LET e == design[g].edges[k]
             t == GetNode(g, e.target_node).type
         IN IF e.source_node # w \/ e.source_port # "message_out"
            THEN ForwardVisits(g, w, msgs, k + 1)
            ELSE IF t = "text_output"
            THEN [j \in 1 .. Len(msgs) |->
                    LogEntry("exit", g, w, e.target_node, k, << msgs[j] >>,
                             << >>, << >>)]
                 \o ForwardVisits(g, w, msgs, k + 1)
            ELSE IF t = "agent"
            THEN << LogEntry("exec", g, w, e.target_node, k, msgs,
                             << >>, << >>) >>
            ELSE ForwardVisits(g, w, msgs, k + 1)

\* a forward of list msgs by node w: the list leaves w as one list and
\* reaches the successors
Forward(g, w, msgs) == << Emit(g, w, msgs) >> \o ForwardVisits(g, w, msgs, 1)

IsPrefix(a, b) == Len(a) <= Len(b) /\ SubSeq(b, 1, Len(a)) = a

RECURSIVE Joined(_, _, _, _, _)
\* the deliveries to node w in log from line k on, read against the state
\* st of the node: every delivery adds its messages behind the pending ones
\* and its sender to the senders received; when all expected senders have
\* delivered, the pending list is forwarded and both are empty again; w
\* forwards at no other line
Joined(g, w, st, log, k) ==
    IF k > Len(log) THEN [ok |-> TRUE, st |-> st]
    ELSE LET en == log[k]
             pend == st.pending_messages \o en.msgs
             recv == st.senders_received \cup {en.src}
             rest == SubSeq(log, k + 1, Len(log))
         IN IF en.kind = "wac" /\ en.tgt = w
            THEN IF ExpectedSenders(g, w) \subseteq recv
                 THEN IF /\ en.before = st.pending_messages
                         /\ IsPrefix(Forward(g, w, pend), rest)
                      THEN Joined(g, w,
                                  [st EXCEPT !.pending_messages = << >>,
                                             !.senders_received = {}],
                                  log, k + 1 + Len(Forward(g, w, pend)))
                      ELSE [ok |-> FALSE, st |-> st]
                 ELSE IF /\ en.before = st.pending_messages
                         /\ en.after = pend
                         /\ ~(rest # << >> /\ rest[1].src = w)
                      THEN Joined(g, w,
                                  [st EXCEPT !.pending_messages = pend,
                                             !.senders_received = recv],
                                  log, k + 1)
                      ELSE [ok |-> FALSE, st |-> st]
            ELSE IF en.src = w /\ en.kind = "emit"
            THEN [ok |-> FALSE, st |-> st]
            ELSE Joined(g, w, st, log, k + 1)

WaitAndCombineJoins ==
    \A w \in DOMAIN wait_and_combine_states
             \cap DOMAIN wait_and_combine_states' :
        LET r == Joined(current_agent_graph, w, wait_and_combine_states[w],
                        StepLog, 1)
        IN /\ r.ok
           /\ wait_and_combine_states'[w] = r.st

\* C39: a wait-and-combine node forwards only when every expected sender
\* (each source of a message edge into its message_in port) has delivered at
\* least once since the last forward; it then forwards all messages that
\* arrived since the last forward, in the order of their arrival, as one
\* list to its message_out successors, and its pending messages and its
\* senders received are empty before the list is routed.
C39_WaitAndCombineJoins == [][WaitAndCombineJoins]_vars

\* the node has forwarded a list of the messages of its three senders to
\* A2 and holds a message of a later delivery
C39_Witness ==
    /\ is_deployed
    /\ current_agent_graph = JoinGraph
    /\ exec_count["A2"] >= 1
    /\ Len(last_input["A2"]) >= 3
    /\ wait_and_combine_states["W"].senders_received # {}

\* ------------------------------------------------ the length of a walk
\* One deployment of a graph without a cycle or of a graph with one, used
\* through both entry calls and by the scheduler.
WalkGraphIds ==
    { g \in DOMAIN Designs : Designs[g] \in {GraphDiamond, GraphLoop} }

\* the executions of agent a that a walk log records
Executions(log, a) ==
    Cardinality({ k \in DOMAIN log : log[k].kind = "exec" /\ log[k].tgt = a })

\* the awaited turn returns; the model follows a walk for MaxHops
\* executions of an agent, after which the agent replies with the empty list
HopReturn(p, nonempty) ==
    /\ nonempty => Executions(walk_log[p], procs[p].agent) < MaxHops
    /\ TurnReturn(p, nonempty)

InitWalk == \E g \in WalkGraphIds : InitOne(g)

NextWalk ==
    \/ AdvanceClock
    \/ \E p \in Users : SendUserMessage(p)
    \/ \E p \in Users : SendVoiceMessage(p)
    \/ \E p \in Procs : \E nonempty \in BOOLEAN : HopReturn(p, nonempty)
    \/ TickBegin
    \/ TickVisit
    \/ TickSleep

SpecWalk == InitWalk /\ [][NextWalk]_vars

\* the step in which the turn that caller p awaits returns
TurnOver(p) == procs[p].pc = "turn" /\ procs'[p] # procs[p]

\* every awaited agent turn returns: weak fairness of
\* \E nonempty \in BOOLEAN : HopReturn(p, nonempty), which is enabled
\* exactly while p is in a turn and is the only step that changes procs[p]
\* then
FairReturn(p) ==
    []<>(procs[p].pc # "turn") \/ []<><<TurnOver(p)>>_vars

SpecWalkFair == SpecWalk /\ \A p \in Procs : FairReturn(p)

\* a message edge of graph g
IsMessageEdge(e) == e.edge_type = "message" /\ e.source_port = "message_out"

\* the agents that a message edge from node n leads to
Succ(g, n) ==
    { e.target_node : e \in
        { x \in Range(design[g].edges) :
            /\ IsMessageEdge(x)
            /\ x.source_node = n
            /\ GetNode(g, x.target_node).type = "agent" } }

RECURSIVE Closure(_, _, _)
Closure(g, S, k) ==
    IF k = 0 THEN S
    ELSE Closure(g, S \cup UNION { Succ(g, n) : n \in S }, k - 1)

\* the agents on a cycle of message edges
OnCycle(g) ==
    { n \in IdsOfType(g, "agent") :
        n \in Closure(g, Succ(g, n), Len(design[g].nodes)) }

RECURSIVE Paths(_, _, _, _)
\* the number of paths of message edges from node n to agent a that begin
\* with an edge of n at position k or later (graph g has no cycle)
Paths(g, n, a, k) ==
    IF k > Len(design[g].edges) THEN 0
    ELSE LET e == design[g].edges[k]
         IN (IF /\ IsMessageEdge(e)
                /\ e.source_node = n
                /\ GetNode(g, e.target_node).type = "agent"
             THEN (IF e.target_node = a THEN 1 ELSE 0)
                  + Paths(g, e.target_node, a, 1)
             ELSE 0)
            + Paths(g, n, a, k + 1)

\* line k of the log is an execution whose reply was the empty list
RepliedEmpty(log, k) ==
    /\ log[k].kind = "exec"
    /\ \/ k = Len(log)
       \/ ~(log[k + 1].kind = "emit" /\ log[k + 1].src = log[k].tgt)

\* caller p is not in a walk and its last walk ran in a deployed graph
WalkOver(p) ==
    /\ procs[p].pc = "idle"
    /\ walk_log[p] # << >>
    /\ walk_log[p][1].g # NoGraph

\* the walks without a cycle: no agent is executed more often than there
\* are paths to it from the entry point, and as often when every reply of
\* the walk held a message
OncePerPath(p) ==
    LET log == walk_log[p]
        g == log[1].g
        entry == log[1].src
    IN OnCycle(g) = {} =>
          /\ \A a \in IdsOfType(g, "agent") :
                Executions(log, a) <= Paths(g, entry, a, 1)
          /\ (WalkOver(p) /\ \A k \in DOMAIN log : ~RepliedEmpty(log, k)) =>
                \A a \in IdsOfType(g, "agent") :
                    Executions(log, a) = Paths(g, entry, a, 1)

\* the walks with a cycle: a walk that reached the cycle has ended only
\* after an agent of the cycle replied with the empty list
EndsByEmptyReply(p) ==
    LET log == walk_log[p]
        g == log[1].g
    IN (/\ WalkOver(p)
        /\ OnCycle(g) # {}
        /\ \E k \in DOMAIN log :
              log[k].kind = "exec" /\ log[k].tgt \in OnCycle(g)) =>
          \E k \in DOMAIN log :
              RepliedEmpty(log, k) /\ log[k].tgt \in OnCycle(g)

WalkLength ==
    \A p \in Procs :
        (walk_log[p] # << >> /\ walk_log[p][1].g # NoGraph) =>
            OncePerPath(p) /\ EndsByEmptyReply(p)

\* a walk in a graph without a cycle is over at some time
AcyclicWalkEnds ==
    \A p \in Procs :
        (procs[p].pc = "turn" /\ OnCycle(current_agent_graph) = {})
            ~> (procs[p].pc = "idle")

\* C40: when the message edges of the deployed graph form no cycle, every
\* walk that send_user_message, send_voice_message or a scheduled tick
\* starts ends, given that every agent turn returns, and it executes each
\* agent once for each path of message edges from the entry point along
\* which the replies held a message; the router has no hop limit and no
\* visited set, so that in a graph with a cycle a walk ends only after an
\* agent of the cycle replied with the empty list.
C40_WalkLength == []WalkLength /\ AcyclicWalkEnds

\* a walk from the text input in the graph without a cycle is over, every
\* reply held a message and A3 was executed once for each of its two paths
C40_Witness ==
    /\ current_agent_graph # NoGraph
    /\ OnCycle(current_agent_graph) = {}
    /\ WalkOver("u1")
    /\ walk_log["u1"][1].src = "T"
    /\ \A k \in DOMAIN walk_log["u1"] : ~RepliedEmpty(walk_log["u1"], k)
    /\ Executions(walk_log["u1"], "A3") = 2

\* a walk in the graph with a cycle has executed A1 MaxHops times
C40_WitnessLoop ==
    /\ current_agent_graph # NoGraph
    /\ OnCycle(current_agent_graph) # {}
    /\ \E p \in Procs : Executions(walk_log[p], "A1") = MaxHops

====
